---- MODULE Spec2Model ----
(***************************************************************************)
(* Superstep runner of the workflow engine: Runner.run_until_convergence,  *)
(* Runner._run_iteration, checkpoint creation and restore_from_checkpoint  *)
(* (agent_framework/_workflows/_runner.py), driven through the Workflow    *)
(* entry points and through direct use of the Runner, on the two-executor  *)
(* increment cycle of tests/workflow/test_workflow.py.                     *)
(***************************************************************************)
EXTENDS Integers, Sequences, FiniteSets, TLC

(***************************************************************************)
(* Bounds of the model.                                                    *)
(***************************************************************************)
MaxIterations == 3      \* max_iterations of the Runner under check
NumCallers == 2         \* tasks that may invoke an entry point
MaxCalls == 2           \* entry-point invocations in one behaviour
MaxCheckpoints == 4     \* capacity of a checkpoint storage
MaxDepth == 2           \* nesting depth of the values fed to the codec
MaxOrphans == 1         \* iteration tasks left behind by closed streams

Callers == 1..NumCallers
Limits == (MaxIterations - 1)..(MaxIterations + 1)

(***************************************************************************)
(* Values held in messages, shared state and checkpoints.  Every value is  *)
(* a record of one shape; t is the Python type of the value.               *)
(***************************************************************************)
NoItems == [k \in {} |-> 0]

NoneV == [t |-> "none", n |-> 0, s |-> "", m |-> NoItems]
IntV(n) == [t |-> "int", n |-> n, s |-> "", m |-> NoItems]
StrV(s) == [t |-> "str", n |-> 0, s |-> s, m |-> NoItems]
ListV(l) == [t |-> "list", n |-> 0, s |-> "", m |-> l]
DictV(m) == [t |-> "dict", n |-> 0, s |-> "", m |-> m]
DataV(cls, m) == [t |-> "dataclass", n |-> 0, s |-> cls, m |-> m]

DATACLASS_MARKER == "__af_dataclass__"
MODEL_MARKER == "__af_model__"
EXECUTOR_STATE_KEY == "_executor_state"

NumberMessage(n) == DataV("NumberMessage", [data |-> IntV(n)])

\* The dataclasses that can be imported when a checkpoint is decoded.
KnownClasses == {"NumberMessage", "SampleRequest"}

MapValues(f, Op(_)) == [k \in DOMAIN f |-> Op(f[k])]

RECURSIVE encode_checkpoint_value(_)
encode_checkpoint_value(v) ==
    CASE v.t = "dataclass" ->
           DictV((DATACLASS_MARKER :> StrV(v.s)) @@
                 ("value" :> DictV(MapValues(v.m, encode_checkpoint_value))))
      [] v.t \in {"dict", "list"} ->
           [v EXCEPT !.m = MapValues(v.m, encode_checkpoint_value)]
      [] OTHER -> v

RECURSIVE decode_checkpoint_value(_)
decode_checkpoint_value(v) ==
    CASE v.t = "dict" /\ DATACLASS_MARKER \in DOMAIN v.m /\ "value" \in DOMAIN v.m ->
           LET raw == decode_checkpoint_value(v.m["value"])
               key == v.m[DATACLASS_MARKER]
           IN  IF key.t = "str" /\ key.s \in KnownClasses /\ raw.t = "dict"
               THEN DataV(key.s, raw.m)
               ELSE raw
      [] v.t \in {"dict", "list"} ->
           [v EXCEPT !.m = MapValues(v.m, decode_checkpoint_value)]
      [] OTHER -> v


(***************************************************************************)
(* The graphs.  "cycle" is executor_a -> executor_b -> executor_a, two     *)
(* IncrementExecutor instances with one limit.  The other graphs are those *)
(* of the edge-group tests: a fan-out from executor_a with a selector, a   *)
(* fan-out followed by a fan-in into an AggregatorExecutor, and a          *)
(* switch-case on executor_a whose targets send back to it.  executor_a    *)
(* also carries the optional snapshot_state / restore_state hooks; no      *)
(* other executor has a hook or a state attribute.                         *)
(***************************************************************************)
Executors == {"executor_a", "executor_b", "executor_c", "executor_d", "aggregator"}
HookExecutors == {"executor_a"}
Aggregators == {"aggregator"}
StartExecutor == "executor_a"

NoCases == <<>>
NoDefault == "None"

Group(kind, sources, targets, rule, cases, default) ==
    [kind |-> kind, sources |-> sources, targets |-> targets, rule |-> rule,
     cases |-> cases, default |-> default]

Single(src, tgt) == Group("single", {src}, {tgt}, "all", NoCases, NoDefault)
FanOut(src, tgts, rule) == Group("fan_out", {src}, tgts, rule, NoCases, NoDefault)
FanIn(srcs, tgt) == Group("fan_in", srcs, {tgt}, "all", NoCases, NoDefault)

\* Case(condition=lambda msg: msg.data < below, target=target)
Case(below, target) == [below |-> below, target |-> target]

SwitchCase(src, cases, default) ==
    Group("switch_case", {src},
          {cases[i].target : i \in DOMAIN cases} \cup ({default} \ {NoDefault}),
          "all", cases, default)

Branches == {"executor_b", "executor_c"}
BackToStart == {Single("executor_b", "executor_a"), Single("executor_c", "executor_a"),
                Single("executor_d", "executor_a")}

GraphOf(name) ==
    CASE name = "cycle" ->
           {Single("executor_a", "executor_b"), Single("executor_b", "executor_a")}
      [] name \in {"fan_out_all", "fan_out_some", "fan_out_none"} ->
           {FanOut("executor_a", Branches \cup {"executor_d"}, name)} \cup BackToStart
      [] name = "approval" ->
           {Single("executor_a", "executor_b"), Single("executor_b", "executor_a")}
      [] name = "fan_out_limits" ->
           {FanOut("executor_a", Branches, "fan_out_all")}
      \* a fan-out to two executors that each ask for an approval
      [] name = "approvals" ->
           {FanOut("executor_a", Branches, "fan_out_all")}
      \* the fan-out of test_fan_out with both branches sending back
      [] name = "fan_out_back" ->
           {FanOut("executor_a", Branches, "fan_out_all"),
            Single("executor_b", "executor_a"), Single("executor_c", "executor_a")}
      [] name = "fan_in" ->
           {FanOut("executor_a", Branches, "fan_out_all"),
            FanIn(Branches, "aggregator")}
      [] name = "fan_in_twice" ->
           {FanOut("executor_a", Branches, "fan_out_all"),
            Single("executor_a", "executor_b"),
            FanIn(Branches, "aggregator")}
      [] name = "switch_overlap" ->
           {SwitchCase("executor_a", <<Case(2, "executor_b"), Case(4, "executor_c")>>,
                       "executor_d")} \cup BackToStart
      [] name = "switch_default" ->
           {SwitchCase("executor_a", <<Case(1, "executor_b"), Case(2, "executor_c")>>,
                       "executor_d")} \cup BackToStart
      [] name = "switch_no_default" ->
           {SwitchCase("executor_a", <<Case(1, "executor_b"), Case(2, "executor_c")>>,
                       NoDefault)} \cup BackToStart

Message(data, src) == [data |-> data, source_id |-> src]
NoMessages == [e \in Executors |-> <<>>]

Output(e, v) == [k |-> "output", e |-> e, v |-> v]
Failed(e) == [k |-> "failed", e |-> e, v |-> 0]

\* RequestInfoEvent(request_id, source_executor_id, data)
RequestInfoEvent(id, e, data) ==
    [k |-> "request_info", e |-> e, v |-> 0, request_id |-> id, data |-> data]

\* A request id: the n-th id handed out, or one written into a checkpoint by
\* hand (n = 0).
RequestId(n) == <<"request", n>>

MockRequest(n) == DataV("MockRequest", [prompt |-> IntV(n)])
ApprovalMessage(approved) == [approved |-> approved]

NoRequest == [id |-> <<"ctx", 0>>, ext |-> FALSE, fault |-> <<"none", "none">>]
NoTask == [st |-> "none", pend |-> NoMessages]

VARIABLES
    cfg,                      \* limit, checkpointing, graph_signature_hash
    running,                  \* Runner._running
    iteration,                \* Runner._iteration
    resumed_from_checkpoint,  \* Runner._resumed_from_checkpoint
    workflow_id,              \* Runner._workflow_id
    is_running,               \* Workflow._is_running
    messages,                 \* RunnerContext: outgoing messages by source
    events,                   \* RunnerContext: queued events
    pending_requests,         \* RunnerContext: open request-info events
    storage,                  \* checkpoint storage of the context
    ext_storage,              \* a checkpoint storage outside the context
    shared_state,             \* SharedState: key -> value
    exec_state,               \* state kept inside the executors with hooks
    pc,                       \* per caller: position in its invocation
    entry,                    \* per caller: the entry point it used
    buf,                      \* per caller: drained events still to yield
    yielded,                  \* per caller: events handed to the consumer
    res,                      \* per caller: how its last invocation ended
    task,                     \* per caller: the iteration task it awaits
    steps_run,                \* per caller: supersteps completed by the call
    iter_at_entry,            \* per caller: Runner._iteration at entry
    req,                      \* per caller: arguments of its last restore
    orphans,                  \* iteration tasks nobody awaits any more
    buffer,                   \* FanInEdgeRunner: messages accumulated so far
    invocation,               \* handler invocations under way that use SharedState
    request_seq,              \* request ids handed out so far
    agent_pending,            \* WorkflowAgent._pending_requests
    calls                     \* entry-point invocations so far

runnerVars == <<running, iteration, resumed_from_checkpoint, workflow_id>>
ctxVars == <<messages, events, pending_requests>>
storeVars == <<storage, ext_storage>>
stateVars == <<shared_state, exec_state>>
callerVars == <<pc, entry, buf, yielded, res, task, steps_run, iter_at_entry, req>>
vars == <<cfg, buffer, invocation, request_seq, agent_pending, runnerVars, is_running, ctxVars, storeVars, stateVars,
          callerVars, orphans, calls>>

max_iterations == MaxIterations
has_messages == \E e \in Executors : messages[e] # <<>>
has_events == events # <<>>
has_checkpointing == cfg.checkpointing

edge_groups == GraphOf(cfg.graph)

\* Runner._parse_edge_runners: the edge runners attached to a source.
edge_runner_map(src) == {g \in edge_groups : src \in g.sources}

\* The state after construction, for a Runner configured as one of configs.
\* The deliveries of one superstep that run at the same time: one per source
\* whose messages the superstep has drained (gather, lines 176-178).
Concurrent == {"executor_b", "executor_c", "executor_d"}

\* No handler is under way.
NoInvocations == [i \in Concurrent |-> [at |-> "idle", existing_messages |-> NoneV]]

Constructed(configs) ==
    /\ cfg \in configs
    /\ running = FALSE
    /\ iteration = 0
    /\ resumed_from_checkpoint = FALSE
    /\ workflow_id = "wf"
    /\ is_running = FALSE
    /\ messages = NoMessages
    /\ events = <<>>
    /\ pending_requests = NoItems
    /\ storage = <<>>
    /\ ext_storage = <<>>
    /\ shared_state = NoItems
    /\ exec_state = [e \in HookExecutors |-> 0]
    /\ pc = [c \in Callers |-> "idle"]
    /\ entry = [c \in Callers |-> "none"]
    /\ buf = [c \in Callers |-> <<>>]
    /\ yielded = [c \in Callers |-> <<>>]
    /\ res = [c \in Callers |-> "none"]
    /\ task = [c \in Callers |-> NoTask]
    /\ steps_run = [c \in Callers |-> 0]
    /\ iter_at_entry = [c \in Callers |-> 0]
    /\ req = [c \in Callers |-> NoRequest]
    /\ orphans = <<>>
    /\ buffer = <<>>
    /\ invocation = NoInvocations
    /\ request_seq = 0
    /\ agent_pending = NoItems
    /\ calls = 0

Init ==
    Constructed([limit : Limits, checkpointing : BOOLEAN, graph_signature_hash : {"g1"},
                 graph : {"cycle"}])

(***************************************************************************)
(* Executors.  IncrementExecutor.mock_handler: forward data + 1 while      *)
(* data < limit, otherwise yield data as output.                           *)
(***************************************************************************)
can_handle(data) == data.t = "dataclass" /\ data.s = "NumberMessage"

\* IncrementExecutor.limit: in the graph "fan_out_limits" executor_b has the
\* limit 1 and executor_c the limit 2; elsewhere every executor has the limit
\* of the configuration.
limit_of(e) ==
    IF cfg.graph = "fan_out_limits" /\ e \in Branches
    THEN (IF e = "executor_b" THEN 1 ELSE 2)
    ELSE cfg.limit

\* A handler that still forwards the value that has reached the limit.
mock_handler_past_limit(e, data) ==
    LET n == data.m["data"].n
    IN  IF n <= limit_of(e)
        THEN [send |-> <<Message(NumberMessage(n + 1), e)>>, out |-> <<>>, last |-> n]
        ELSE [send |-> <<>>, out |-> <<Output(e, n)>>, last |-> n]

mock_handler(e, data) ==
    LET n == data.m["data"].n
    IN  IF n < limit_of(e)
        THEN [send |-> <<Message(NumberMessage(n + 1), e)>>, out |-> <<>>, last |-> n]
        ELSE [send |-> <<>>, out |-> <<Output(e, n)>>, last |-> n]

\* AggregatorExecutor.mock_handler takes a list of NumberMessage and yields
\* the sum of their data.
can_handle_list(data) ==
    data.t = "list" /\ \A i \in DOMAIN data.m : can_handle(data.m[i])

RECURSIVE Sum(_)
Sum(l) == IF l = <<>> THEN 0 ELSE Head(l).m["data"].n + Sum(Tail(l))

aggregate(e, data) == [send |-> <<>>, out |-> <<Output(e, Sum(data.m))>>, last |-> 0]

\* Whether executor e has a handler for data.
CanHandle(e, data) ==
    IF e \in Aggregators THEN can_handle_list(data) ELSE can_handle(data)

\* In the graph "approval" executor_b is a MockExecutorRequestApproval, in
\* the graph "approvals" both branches are.
RequestApprovers ==
    CASE cfg.graph = "approval" -> {"executor_b"}
      [] cfg.graph = "approvals" -> Branches
      [] OTHER -> {}

\* WorkflowContext.request_info: the request gets an id of its own, is kept
\* as open and is emitted as a RequestInfoEvent.
request_info(e, request_data, ctx) ==
    LET id == RequestId(ctx.request_seq + 1)
        event == RequestInfoEvent(id, e, request_data)
    IN  [ctx EXCEPT !.request_seq = @ + 1,
                    !.pending_requests = (id :> event) @@ @,
                    !.events = @ \o <<event>>]

\* MockExecutorRequestApproval.mock_handler_a: the value is kept in the
\* shared state under the executor's id and an approval is requested.
mock_handler_a(e, data, ctx) ==
    LET n == data.m["data"].n
    IN  request_info(e, MockRequest(n),
                     [ctx EXCEPT !.shared_state = (e :> IntV(n)) @@ @])

\* MockExecutorRequestApproval.mock_handler_b, the response handler: an
\* approval yields the value kept in the shared state, a refusal sends it on.
mock_handler_b(e, original_request, response, ctx) ==
    LET data == ctx.shared_state[e].n
    IN  IF response.approved
        THEN [ctx EXCEPT !.events = @ \o <<Output(e, data)>>]
        ELSE [ctx EXCEPT !.messages[e] = @ \o <<Message(NumberMessage(data), e)>>]

\* What one execution of e's handler on data leaves in the context and in
\* the executor.
Execute(e, data, ctx) ==
    IF e \in RequestApprovers THEN mock_handler_a(e, data, ctx)
    ELSE
    LET r == IF e \in Aggregators THEN aggregate(e, data) ELSE mock_handler(e, data)
    IN  [ctx EXCEPT !.messages[e] = @ \o r.send,
                    !.events = @ \o r.out,
                    !.exec_state = IF e \in HookExecutors
                                   THEN [@ EXCEPT ![e] = r.last] ELSE @]

\* A handler that throws: the executor queues its failure event and re-raises.
ExecuteFailing(e, ctx) == [ctx EXCEPT !.events = @ \o <<Failed(e)>>]

\* A delivery that hands the payload on as it was queued.
payload_as_queued(data) == data

\* A normalization that looks for the model marker only.
normalize_models_only(data) ==
    IF data.t # "dict" THEN data
    ELSE IF MODEL_MARKER \notin DOMAIN data.m THEN data
         ELSE decode_checkpoint_value(data)

\* Runner._run_iteration._normalize_message_payload
normalize_message_payload(data) ==
    IF data.t # "dict" THEN data
    ELSE IF MODEL_MARKER \notin DOMAIN data.m /\ DATACLASS_MARKER \notin DOMAIN data.m
         THEN data
         ELSE decode_checkpoint_value(data)

\* The orders in which the members of a finite set can be served.
Orders(S) ==
    {f \in [1..Cardinality(S) -> S] : \A i, j \in 1..Cardinality(S) : f[i] = f[j] => i = j}

\* A fan-out that serves only the first of its targets.
ExecuteFirstOnly(order, data, ctx) ==
    IF order = <<>> THEN ctx ELSE Execute(Head(order), data, ctx)

RECURSIVE ExecuteEach(_, _, _)
ExecuteEach(order, data, ctx) ==
    IF order = <<>> THEN ctx
    ELSE ExecuteEach(Tail(order), data, Execute(Head(order), data, ctx))

\* FanOut: the selection function of the group; without one every target
\* is selected.
selection_func(g, data) ==
    CASE g.rule = "fan_out_some" ->
           IF data.m["data"].n < 2 THEN {"executor_b"} ELSE {"executor_c", "executor_d"}
      [] g.rule = "fan_out_none" -> {}
      [] OTHER -> g.targets

\* A switch that takes the last of the cases whose condition holds.
last_match(g, data) ==
    LET matching == {i \in DOMAIN g.cases : data.m["data"].n < g.cases[i].below}
    IN  IF matching = {} THEN g.default
        ELSE g.cases[CHOOSE i \in matching : \A j \in matching : i >= j].target

\* SwitchCase: the target of the first case, in declaration order, whose
\* condition holds, and the default target when none does.
first_match(g, data) ==
    LET matching == {i \in DOMAIN g.cases : data.m["data"].n < g.cases[i].below}
    IN  IF matching = {} THEN g.default
        ELSE g.cases[CHOOSE i \in matching : \A j \in matching : i <= j].target

\* A fan-in that hands over as soon as anything is buffered.
is_ready_with_any(g, buffered) == buffered # <<>>

\* FanIn: every source of the group has a message in the buffer.
is_ready_to_send(g, buffered) ==
    \A src \in g.sources : \E i \in DOMAIN buffered : buffered[i].source_id = src

\* EdgeRunner.send_message: the contexts that the delivery of msg through
\* group g can leave, one for each order in which its targets are served.
send_message(g, msg, ctx) ==
    CASE g.kind = "single" ->
           LET tgt == CHOOSE t \in g.targets : TRUE
           IN  IF CanHandle(tgt, msg.data) THEN {Execute(tgt, msg.data, ctx)} ELSE {ctx}
      [] g.kind = "fan_out" ->
           LET chosen == {t \in selection_func(g, msg.data) \cap g.targets :
                             CanHandle(t, msg.data)}
           IN  {ExecuteEach(order, msg.data, ctx) : order \in Orders(chosen)}
      [] g.kind = "switch_case" ->
           LET tgt == first_match(g, msg.data)
           IN  IF tgt = NoDefault \/ ~CanHandle(tgt, msg.data) THEN {ctx}
               ELSE {Execute(tgt, msg.data, ctx)}
      [] g.kind = "fan_in" ->
           LET tgt == CHOOSE t \in g.targets : TRUE
               buffered == Append(ctx.buffer, msg)
           IN  IF ~CanHandle(tgt, ListV(<<msg.data>>)) THEN {ctx}
               ELSE IF is_ready_to_send(g, buffered)
               THEN {Execute(tgt, ListV([i \in DOMAIN buffered |-> buffered[i].data]),
                             [ctx EXCEPT !.buffer = <<>>])}
               ELSE {[ctx EXCEPT !.buffer = buffered]}


(***************************************************************************)
(* Runner._run_iteration, one step at a time.  A task is created, drains   *)
(* the context's messages, delivers the head message of some source bucket *)
(* through the edge runners of that source, and finishes when every bucket *)
(* is empty.  TaskNext is the set of outcomes of the task's next step.     *)
(***************************************************************************)
Context ==
    [messages |-> messages, events |-> events, exec_state |-> exec_state,
     buffer |-> buffer, shared_state |-> shared_state,
     pending_requests |-> pending_requests, request_seq |-> request_seq]

\* Lines 170-174: the message goes through every edge runner of its source;
\* the runners are served in any order.
RECURSIVE SendAll(_, _, _)
SendAll(runners, msg, ctxs) ==
    IF runners = {} THEN ctxs
    ELSE UNION {SendAll(runners \ {g}, msg,
                        UNION {send_message(g, msg, ctx) : ctx \in ctxs}) :
                g \in runners}

TargetOf(src) == CHOOSE t \in (CHOOSE g \in edge_runner_map(src) : TRUE).targets : TRUE

Outcome(t, ctx, spawned) == [t |-> t, ctx |-> ctx, spawned |-> spawned]

TaskDrain(t) ==
    IF has_messages
    THEN {Outcome([st |-> "running", pend |-> messages],
                  [Context EXCEPT !.messages = NoMessages], <<>>)}
    ELSE {Outcome([st |-> "done", pend |-> NoMessages], Context, <<>>)}

\* A delivery that hands what the handlers send to the superstep under way
\* instead of leaving it queued for the next one.
TaskDeliverEager(t, src, fail) ==
    LET msg == Head(t.pend[src])
        data == normalize_message_payload(msg.data)
        rest == [t.pend EXCEPT ![src] = Tail(@)]
    IN  {Outcome([t EXCEPT !.pend =
                     [e \in Executors |->
                         rest[e] \o SubSeq(ctx.messages[e], Len(messages[e]) + 1,
                                           Len(ctx.messages[e]))]],
                 [ctx EXCEPT !.messages = messages], <<>>) :
            ctx \in SendAll(edge_runner_map(src), Message(data, src), {Context})}

\* A delivery that takes a source without outgoing edges for an error.
TaskDeliverOrFail(t, src, fail) ==
    LET msg == Head(t.pend[src])
        data == normalize_message_payload(msg.data)
        rest == [t.pend EXCEPT ![src] = Tail(@)]
    IN  IF edge_runner_map(src) = {}
        THEN {Outcome([st |-> "failed", pend |-> NoMessages],
                      ExecuteFailing(src, Context), <<>>)}
        ELSE {Outcome([t EXCEPT !.pend = rest], ctx, <<>>) :
                 ctx \in SendAll(edge_runner_map(src), Message(data, src), {Context})}

\* A delivery that takes the newest message of the bucket first.
TaskDeliverNewestFirst(t, src, fail) ==
    LET msg == t.pend[src][Len(t.pend[src])]
        data == normalize_message_payload(msg.data)
        rest == [t.pend EXCEPT ![src] = SubSeq(@, 1, Len(@) - 1)]
    IN  IF edge_runner_map(src) = {}
        THEN {Outcome([t EXCEPT !.pend[src] = <<>>], Context, <<>>)}
        ELSE {Outcome([t EXCEPT !.pend = rest], ctx, <<>>) :
                 ctx \in SendAll(edge_runner_map(src), Message(data, src), {Context})}

TaskDeliver(t, src, fail) ==
    LET msg == Head(t.pend[src])
        data == normalize_message_payload(msg.data)
        rest == [t.pend EXCEPT ![src] = Tail(@)]
        siblings == [t.pend EXCEPT ![src] = <<>>]
    IN  IF edge_runner_map(src) = {}
        THEN {Outcome([t EXCEPT !.pend = siblings], Context, <<>>)}
        ELSE IF fail /\ can_handle(data)
        THEN {Outcome([st |-> "failed", pend |-> NoMessages],
                      ExecuteFailing(TargetOf(src), Context),
                      IF siblings = NoMessages THEN <<>>
                      ELSE <<[st |-> "running", pend |-> siblings]>>)}
        ELSE {Outcome([t EXCEPT !.pend = rest], ctx, <<>>) :
                 ctx \in SendAll(edge_runner_map(src), Message(data, src), {Context})}

TaskNext(t, allowFail) ==
    CASE t.st = "created" -> TaskDrain(t)
      [] t.st = "running" /\ t.pend = NoMessages ->
           {Outcome([t EXCEPT !.st = "done"], Context, <<>>)}
      [] t.st = "running" /\ t.pend # NoMessages ->
           UNION {TaskDeliver(t, src, fail) :
                  src \in {e \in Executors : t.pend[e] # <<>>},
                  fail \in (IF allowFail THEN BOOLEAN ELSE {FALSE})}
      [] OTHER -> {}

Live(t) == t.st \in {"created", "running"}

\* The iteration task of caller c takes a step.
IterationStep(c, allowFail) ==
    /\ \E o \in TaskNext(task[c], allowFail) :
          /\ task' = [task EXCEPT ![c] = o.t]
          /\ messages' = o.ctx.messages
          /\ events' = o.ctx.events
          /\ exec_state' = o.ctx.exec_state
          /\ buffer' = o.ctx.buffer
          /\ shared_state' = o.ctx.shared_state
          /\ pending_requests' = o.ctx.pending_requests
          /\ request_seq' = o.ctx.request_seq
          /\ orphans' = orphans \o o.spawned
    /\ UNCHANGED <<cfg, agent_pending, invocation, runnerVars, is_running, storeVars, pc, entry, buf,
                   yielded, res, steps_run, iter_at_entry, req, calls>>

RemoveAt(seq, i) == SubSeq(seq, 1, i - 1) \o SubSeq(seq, i + 1, Len(seq))

\* An iteration task that outlived its run takes a step.
OrphanStep(allowFail) ==
    /\ \E i \in DOMAIN orphans :
          \E o \in TaskNext(orphans[i], allowFail) :
             /\ orphans' = (IF Live(o.t) THEN [orphans EXCEPT ![i] = o.t]
                            ELSE RemoveAt(orphans, i)) \o o.spawned
             /\ messages' = o.ctx.messages
             /\ events' = o.ctx.events
             /\ exec_state' = o.ctx.exec_state
             /\ buffer' = o.ctx.buffer
             /\ shared_state' = o.ctx.shared_state
             /\ pending_requests' = o.ctx.pending_requests
             /\ request_seq' = o.ctx.request_seq
    /\ UNCHANGED <<cfg, agent_pending, invocation, runnerVars, is_running, storeVars, callerVars,
                   calls>>


(***************************************************************************)
(* Checkpoint creation.                                                    *)
(***************************************************************************)
Truthy(str) == str \notin {"None", ""}

Put(f, k, v) == (k :> v) @@ f
Get(f, k) == IF k \in DOMAIN f THEN f[k] ELSE "None"

snapshot_state(e) == DictV([last |-> IntV(exec_state[e])])

\* Runner._set_executor_state; a reserved entry that is no dict raises, and
\* the caller logs and skips.
set_executor_state(shared, e, state) ==
    LET existing == IF EXECUTOR_STATE_KEY \in DOMAIN shared
                    THEN shared[EXECUTOR_STATE_KEY] ELSE DictV(NoItems)
    IN  IF existing.t # "dict" THEN shared
        ELSE Put(shared, EXECUTOR_STATE_KEY, DictV(Put(existing.m, e, state)))

\* Runner._auto_snapshot_executor_states; throwing holds the executors whose
\* snapshot hook throws.
RECURSIVE auto_snapshot_executor_states(_, _, _)
auto_snapshot_executor_states(shared, todo, throwing) ==
    IF todo = {} THEN shared
    ELSE LET e == CHOOSE x \in todo : TRUE
             next == IF e \in HookExecutors /\ e \notin throwing
                     THEN set_executor_state(shared, e, snapshot_state(e))
                     ELSE shared
         IN  auto_snapshot_executor_states(next, todo \ {e}, throwing)

EncodeMessages(msgs) ==
    [e \in Executors |->
        [i \in DOMAIN msgs[e] |->
            [msgs[e][i] EXCEPT !.data = encode_checkpoint_value(@)]]]

checkpoint_metadata(checkpoint_type) ==
    LET category == IF checkpoint_type = "after_initial_execution"
                    THEN "initial" ELSE "superstep"
        base == [superstep |-> iteration, checkpoint_type |-> category]
    IN  IF Truthy(cfg.graph_signature_hash)
        THEN Put(base, "graph_signature", cfg.graph_signature_hash)
        ELSE base

\* RunnerContext.create_checkpoint: the record handed to the storage.
create_checkpoint(shared, metadata) ==
    [workflow_id |-> workflow_id,
     iteration_count |-> iteration,
     shared_state |-> encode_checkpoint_value(DictV(shared)),
     messages |-> EncodeMessages(messages),
     pending_request_info_events |-> pending_requests,
     metadata |-> metadata]

\* Runner._create_checkpoint_if_enabled with checkpointing enabled: the
\* snapshot hooks run first and write shared state; a failure of the save is
\* logged and swallowed.
CheckpointEffects(checkpoint_type, allowFail) ==
    \E throwing \in (IF allowFail THEN SUBSET HookExecutors ELSE {{}}),
       saved \in (IF allowFail THEN BOOLEAN ELSE {TRUE}) :
        LET shared == auto_snapshot_executor_states(shared_state, Executors, throwing)
        IN  /\ shared_state' = shared
            /\ storage' = IF saved /\ Len(storage) < MaxCheckpoints
                          THEN Append(storage,
                                      create_checkpoint(shared,
                                          checkpoint_metadata(checkpoint_type)))
                          ELSE storage


(***************************************************************************)
(* Runner.run_until_convergence: an async generator.  A caller is at       *)
(*   idle   outside any invocation                                         *)
(*   start  holding the generator, before its first step                   *)
(*   pre    past the guard, yielding the events queued before the loop     *)
(*   loop   before the test of the while loop                              *)
(*   poll   racing the iteration task against next_event                   *)
(*   tail   superstep counted, yielding its trailing events                *)
(*   check  superstep checkpoint taken, before the convergence test        *)
(*   fail   iteration task failed, yielding the events queued so far       *)
(*   exit   invocation over, its outcome in res; inside the finally of the *)
(*          Workflow wrapper when it came through the Workflow             *)
(***************************************************************************)
BodyPcs == {"pre", "loop", "poll", "tail", "check", "fail"}
InBody(c) == pc[c] \in BodyPcs

DirectEntries == {"runner", "restore"}

\* Callers are interchangeable: the next invocation is made by the first
\* caller that is not inside one.
MayCall(c) ==
    /\ pc[c] = "idle"
    /\ calls < MaxCalls
    /\ \A d \in Callers : d < c => pc[d] # "idle"

\* A Runner is driven either by its Workflow or by callers that hold it
\* directly, never by both at once.
MayCallWorkflow(c) ==
    /\ MayCall(c)
    /\ \A d \in Callers : pc[d] # "idle" => entry[d] \notin DirectEntries

MayCallRunner(c) ==
    /\ MayCall(c)
    /\ \A d \in Callers : pc[d] # "idle" => entry[d] \in DirectEntries

Streaming(c) == entry[c] \in {"run_stream", "run_stream_from_checkpoint", "runner"}

\* A generator whose finally clause is skipped when the consumer closes it.
FinishSkippedOnClose(c, outcome) ==
    /\ running' = (outcome = "closed")
    /\ pc' = [pc EXCEPT ![c] = "exit"]
    /\ res' = [res EXCEPT ![c] = outcome]

\* The finally clause: the generator ends with outcome.
Finish(c, outcome) ==
    /\ running' = FALSE
    /\ pc' = [pc EXCEPT ![c] = "exit"]
    /\ res' = [res EXCEPT ![c] = outcome]

\* A loop whose exhaustion is not reported.
AfterLoopSilent(c) ==
    /\ Finish(c, "converged")
    /\ iteration' = 0
    /\ resumed_from_checkpoint' = FALSE
    /\ UNCHANGED task

\* Lines 132-141: after the loop.
\* A failure to converge that starts the count afresh.
AfterLoopForgetting(c) ==
    IF iteration >= max_iterations /\ has_messages
    THEN /\ Finish(c, "not_converged")
         /\ iteration' = 0
         /\ UNCHANGED <<resumed_from_checkpoint, task>>
    ELSE /\ Finish(c, "converged")
         /\ iteration' = 0
         /\ resumed_from_checkpoint' = FALSE
         /\ UNCHANGED task

\* A completion that leaves the counter and the resumed flag as they are.
AfterLoopLeavingCounters(c) ==
    IF iteration >= max_iterations /\ has_messages
    THEN /\ Finish(c, "not_converged")
         /\ UNCHANGED <<iteration, resumed_from_checkpoint, task>>
    ELSE /\ Finish(c, "converged")
         /\ UNCHANGED <<iteration, resumed_from_checkpoint, task>>

AfterLoop(c) ==
    IF iteration >= max_iterations /\ has_messages
    THEN /\ Finish(c, "not_converged")
         /\ UNCHANGED <<iteration, resumed_from_checkpoint, task>>
    ELSE /\ Finish(c, "converged")
         /\ iteration' = 0
         /\ resumed_from_checkpoint' = FALSE
         /\ UNCHANGED task

\* Line 93 and what follows it: the test of the while loop.
LoopTest(c) ==
    IF iteration < max_iterations
    THEN /\ task' = [task EXCEPT ![c] = [st |-> "created", pend |-> NoMessages]]
         /\ pc' = [pc EXCEPT ![c] = "poll"]
         /\ UNCHANGED <<running, iteration, resumed_from_checkpoint, res>>
    ELSE AfterLoop(c)

\* A generator without the guard of lines 74-75.
EnterUnguarded(c) ==
    /\ pc[c] = "start"
    /\ iter_at_entry' = [iter_at_entry EXCEPT ![c] = iteration]
    /\ running' = TRUE
    /\ buf' = [buf EXCEPT ![c] = events]
    /\ events' = <<>>
    /\ pc' = [pc EXCEPT ![c] = "pre"]
    /\ UNCHANGED <<cfg, agent_pending, buffer, invocation, request_seq, iteration,
                   resumed_from_checkpoint, workflow_id, is_running,
                   messages, pending_requests, storeVars, stateVars, entry, yielded,
                   res, task, steps_run, req, orphans, calls>>

\* A generator whose guard sits inside the try: the finally clause clears
\* the flag of the run in flight.
EnterGuardInsideTry(c) ==
    /\ pc[c] = "start"
    /\ iter_at_entry' = [iter_at_entry EXCEPT ![c] = iteration]
    /\ IF running
       THEN /\ res' = [res EXCEPT ![c] = "runner_already_running"]
            /\ pc' = [pc EXCEPT ![c] = "exit"]
            /\ running' = FALSE
            /\ UNCHANGED <<buf, events>>
       ELSE /\ running' = TRUE
            /\ buf' = [buf EXCEPT ![c] = events]
            /\ events' = <<>>
            /\ pc' = [pc EXCEPT ![c] = "pre"]
            /\ UNCHANGED res
    /\ UNCHANGED <<cfg, agent_pending, buffer, invocation, request_seq, iteration,
                   resumed_from_checkpoint, workflow_id, is_running,
                   messages, pending_requests, storeVars, stateVars, entry, yielded,
                   task, steps_run, req, orphans, calls>>

\* Lines 74-83: the guard, then the events queued before the loop are drained.
Enter(c) ==
    /\ pc[c] = "start"
    /\ iter_at_entry' = [iter_at_entry EXCEPT ![c] = iteration]
    /\ IF running
       THEN /\ res' = [res EXCEPT ![c] = "runner_already_running"]
            /\ pc' = [pc EXCEPT ![c] = "exit"]
            /\ UNCHANGED <<running, buf, events>>
       ELSE /\ running' = TRUE
            /\ buf' = [buf EXCEPT ![c] = events]
            /\ events' = <<>>
            /\ pc' = [pc EXCEPT ![c] = "pre"]
            /\ UNCHANGED res
    /\ UNCHANGED <<cfg, agent_pending, buffer, invocation, request_seq, iteration,
                   resumed_from_checkpoint, workflow_id, is_running,
                   messages, pending_requests, storeVars, stateVars, entry, yielded,
                   task, steps_run, req, orphans, calls>>

\* The entry points of a run made by the WorkflowAgent.
AgentEntries == {"agent_run_stream", "agent_send_responses"}

\* An agent that hands request events on without keeping them.
convert_without_recording(pending, event) == pending

\* WorkflowAgent._convert_workflow_event_to_agent_update, as far as it
\* changes the agent: a RequestInfoEvent is stored under its request id.
convert_workflow_event_to_agent_update(pending, event) ==
    IF event.k = "request_info" THEN (event.request_id :> event) @@ pending
    ELSE pending

\* The event reaches the consumer of caller c's stream; when that is the
\* WorkflowAgent, it is converted on the spot (lines 223-227).
Consumed(c, event) ==
    agent_pending' = IF entry[c] \in AgentEntries
                     THEN convert_workflow_event_to_agent_update(agent_pending, event)
                     ELSE agent_pending

\* A drained event is yielded; the consumer of a stream may close it there.
Yield(c, close) ==
    /\ pc[c] \in {"pre", "tail", "fail"}
    /\ buf[c] # <<>>
    /\ close => Streaming(c)
    /\ yielded' = [yielded EXCEPT ![c] = Append(@, Head(buf[c]))]
    /\ IF close
       THEN /\ Finish(c, "closed")
            /\ buf' = [buf EXCEPT ![c] = <<>>]
       ELSE /\ buf' = [buf EXCEPT ![c] = Tail(@)]
            /\ UNCHANGED <<running, pc, res>>
    /\ Consumed(c, Head(buf[c]))
    /\ UNCHANGED <<cfg, buffer, invocation, request_seq, iteration,
                   resumed_from_checkpoint, workflow_id, is_running,
                   ctxVars, storeVars, stateVars, entry, task, steps_run,
                   iter_at_entry, req, orphans, calls>>

\* Lines 85-91: the checkpoint after the initial execution.
InitialCheckpointDue ==
    has_messages /\ has_checkpointing /\ ~resumed_from_checkpoint

InitialCheckpoint(c, allowFail) ==
    /\ pc[c] = "pre"
    /\ buf[c] = <<>>
    /\ InitialCheckpointDue
    /\ CheckpointEffects("after_initial_execution", allowFail)
    /\ pc' = [pc EXCEPT ![c] = "loop"]
    /\ UNCHANGED <<cfg, agent_pending, buffer, invocation, request_seq, runnerVars, is_running, ctxVars,
                   ext_storage, exec_state,
                   entry, buf, yielded, res, task, steps_run, iter_at_entry,
                   req, orphans, calls>>

\* A loop that is entered only while messages are pending.
LoopHeadIfPending(c) ==
    /\ \/ pc[c] = "loop"
       \/ pc[c] = "pre" /\ buf[c] = <<>> /\ ~InitialCheckpointDue
    /\ IF has_messages THEN LoopTest(c) ELSE AfterLoop(c)
    /\ UNCHANGED <<cfg, agent_pending, buffer, invocation, request_seq, workflow_id, is_running,
                   ctxVars, storeVars, stateVars,
                   entry, buf, yielded, steps_run, iter_at_entry, req, orphans, calls>>

LoopHead(c) ==
    /\ \/ pc[c] = "loop"
       \/ pc[c] = "pre" /\ buf[c] = <<>> /\ ~InitialCheckpointDue
    /\ LoopTest(c)
    /\ UNCHANGED <<cfg, agent_pending, buffer, invocation, request_seq, workflow_id, is_running,
                   ctxVars, storeVars, stateVars,
                   entry, buf, yielded, steps_run, iter_at_entry, req, orphans, calls>>

\* A loop that hands events over only once the iteration task has finished.
PollYieldAfterDelivery(c, close) ==
    /\ pc[c] = "poll"
    /\ has_events
    /\ ~Live(task[c])
    /\ close => Streaming(c)
    /\ yielded' = [yielded EXCEPT ![c] = Append(@, Head(events))]
    /\ events' = Tail(events)
    /\ IF close
       THEN /\ Finish(c, "closed")
            /\ task' = [task EXCEPT ![c] = NoTask]
            /\ UNCHANGED orphans
       ELSE UNCHANGED <<running, pc, res, task, orphans>>
    /\ Consumed(c, Head(events))
    /\ UNCHANGED <<cfg, buffer, invocation, request_seq, iteration,
                   resumed_from_checkpoint, workflow_id, is_running,
                   messages, pending_requests, storeVars, stateVars, entry, buf,
                   steps_run, iter_at_entry, req, calls>>

\* Lines 99-106: an event that arrives while the task runs is yielded at once.
PollYield(c, close) ==
    /\ pc[c] = "poll"
    /\ has_events
    /\ close => Streaming(c) /\ (Live(task[c]) => Len(orphans) < MaxOrphans)
    /\ yielded' = [yielded EXCEPT ![c] = Append(@, Head(events))]
    /\ events' = Tail(events)
    /\ IF close
       THEN /\ Finish(c, "closed")
            /\ task' = [task EXCEPT ![c] = NoTask]
            /\ orphans' = IF Live(task[c]) THEN Append(orphans, task[c]) ELSE orphans
       ELSE UNCHANGED <<running, pc, res, task, orphans>>
    /\ Consumed(c, Head(events))
    /\ UNCHANGED <<cfg, buffer, invocation, request_seq, iteration,
                   resumed_from_checkpoint, workflow_id, is_running,
                   messages, pending_requests, storeVars, stateVars, entry, buf,
                   steps_run, iter_at_entry, req, calls>>

\* An await after which the events still queued are discarded instead of
\* drained.
AwaitTaskDropping(c) ==
    /\ pc[c] = "poll"
    /\ task[c].st \in {"done", "failed"}
    /\ buf' = [buf EXCEPT ![c] = <<>>]
    /\ events' = <<>>
    /\ task' = [task EXCEPT ![c] = NoTask]
    /\ IF task[c].st = "done"
       THEN /\ iteration' = iteration + 1
            /\ steps_run' = [steps_run EXCEPT ![c] = @ + 1]
            /\ pc' = [pc EXCEPT ![c] = "tail"]
       ELSE /\ pc' = [pc EXCEPT ![c] = "fail"]
            /\ UNCHANGED <<iteration, steps_run>>
    /\ UNCHANGED <<cfg, agent_pending, buffer, invocation, request_seq, running,
                   resumed_from_checkpoint, workflow_id, is_running,
                   messages, pending_requests, storeVars, stateVars, entry, yielded,
                   res, iter_at_entry, req, orphans, calls>>

\* Lines 108-122: the task is awaited; its failure surfaces after the queued
\* events, its success counts the superstep.
AwaitTask(c) ==
    /\ pc[c] = "poll"
    /\ task[c].st \in {"done", "failed"}
    /\ buf' = [buf EXCEPT ![c] = events]
    /\ events' = <<>>
    /\ task' = [task EXCEPT ![c] = NoTask]
    /\ IF task[c].st = "done"
       THEN /\ iteration' = iteration + 1
            /\ steps_run' = [steps_run EXCEPT ![c] = @ + 1]
            /\ pc' = [pc EXCEPT ![c] = "tail"]
       ELSE /\ pc' = [pc EXCEPT ![c] = "fail"]
            /\ UNCHANGED <<iteration, steps_run>>
    /\ UNCHANGED <<cfg, agent_pending, buffer, invocation, request_seq, running,
                   resumed_from_checkpoint, workflow_id, is_running,
                   messages, pending_requests, storeVars, stateVars, entry, yielded,
                   res, iter_at_entry, req, orphans, calls>>

\* A failure that is raised as soon as it is seen, whatever is still queued.
RaiseAtOnce(c) ==
    /\ pc[c] = "fail"
    /\ Finish(c, "delivery_failed")
    /\ buf' = [buf EXCEPT ![c] = <<>>]
    /\ UNCHANGED <<cfg, agent_pending, buffer, invocation, request_seq, iteration,
                   resumed_from_checkpoint, workflow_id,
                   is_running, ctxVars, storeVars, stateVars, entry, yielded, task,
                   steps_run, iter_at_entry, req, orphans, calls>>

\* Line 116: the failure of the iteration propagates.
Raise(c) ==
    /\ pc[c] = "fail"
    /\ buf[c] = <<>>
    /\ Finish(c, "delivery_failed")
    /\ UNCHANGED <<cfg, agent_pending, buffer, invocation, request_seq, iteration,
                   resumed_from_checkpoint, workflow_id, is_running,
                   ctxVars, storeVars, stateVars, entry, buf, yielded, task,
                   steps_run, iter_at_entry, req, orphans, calls>>

\* A checkpoint whose failed save ends the run.
SuperstepCheckpointRaising(c, allowFail) ==
    /\ pc[c] = "tail"
    /\ buf[c] = <<>>
    /\ has_checkpointing
    /\ CheckpointEffects("superstep", allowFail)
    /\ IF allowFail /\ storage' = storage
       THEN Finish(c, "checkpoint_failed")
       ELSE /\ pc' = [pc EXCEPT ![c] = "check"]
            /\ UNCHANGED <<running, res>>
    /\ UNCHANGED <<cfg, agent_pending, buffer, invocation, request_seq, iteration,
                   resumed_from_checkpoint, workflow_id,
                   is_running, ctxVars, ext_storage, exec_state, entry, buf, yielded,
                   task, steps_run, iter_at_entry, req, orphans, calls>>

\* Line 127: the checkpoint after a superstep.
SuperstepCheckpoint(c, allowFail) ==
    /\ pc[c] = "tail"
    /\ buf[c] = <<>>
    /\ has_checkpointing
    /\ CheckpointEffects("superstep", allowFail)
    /\ pc' = [pc EXCEPT ![c] = "check"]
    /\ UNCHANGED <<cfg, agent_pending, buffer, invocation, request_seq, runnerVars, is_running, ctxVars,
                   ext_storage, exec_state,
                   entry, buf, yielded, res, task, steps_run, iter_at_entry,
                   req, orphans, calls>>

\* A loop that tests for convergence without waiting for the checkpoint.
ConvergenceCheckFirst(c) ==
    /\ \/ pc[c] = "check"
       \/ pc[c] = "tail" /\ buf[c] = <<>>
    /\ IF has_messages THEN LoopTest(c) ELSE AfterLoop(c)
    /\ UNCHANGED <<cfg, agent_pending, buffer, invocation, request_seq, workflow_id, is_running,
                   ctxVars, storeVars, stateVars,
                   entry, buf, yielded, steps_run, iter_at_entry, req, orphans, calls>>

\* Lines 129-130: convergence, or the next round.
ConvergenceCheck(c) ==
    /\ \/ pc[c] = "check"
       \/ pc[c] = "tail" /\ buf[c] = <<>> /\ ~has_checkpointing
    /\ IF has_messages THEN LoopTest(c) ELSE AfterLoop(c)
    /\ UNCHANGED <<cfg, agent_pending, buffer, invocation, request_seq, workflow_id, is_running,
                   ctxVars, storeVars, stateVars,
                   entry, buf, yielded, steps_run, iter_at_entry, req, orphans, calls>>



(***************************************************************************)
(* Runner.restore_from_checkpoint.  A checkpoint id names a storage and a  *)
(* position in it.  fault is a failure of a collaborator (the storage, the *)
(* shared state, the context) at one stage, with the class of the          *)
(* exception it raises.                                                    *)
(***************************************************************************)
NoFault == <<"none", "none">>
Faults == {NoFault} \cup
          ({"load", "import", "apply"} \X {"ValueError", "Exception"})

Found(store, tag, id) == id[1] = tag /\ id[2] \in DOMAIN store

\* A lookup that prefers the storage handed to the call.
ConsultedExternalFirst(ext) ==
    IF ext THEN "ext" ELSE IF has_checkpointing THEN "ctx" ELSE "None"

\* Lines 259-265: the storage that is consulted, if any.
Consulted(ext) ==
    IF has_checkpointing THEN "ctx" ELSE IF ext THEN "ext" ELSE "None"

Obtainable(id, ext) ==
    \/ Consulted(ext) = "ctx" /\ Found(storage, "ctx", id)
    \/ Consulted(ext) = "ext" /\ Found(ext_storage, "ext", id)

Loaded(id, ext) ==
    IF Consulted(ext) = "ctx" THEN storage[id[2]] ELSE ext_storage[id[2]]

\* A topology check that compares the two signatures whatever they are.
graph_differs(checkpoint) ==
    cfg.graph_signature_hash # Get(checkpoint.metadata, "graph_signature")

\* Lines 272-278: the topology check.
graph_changed(checkpoint) ==
    LET graph_hash == cfg.graph_signature_hash
        checkpoint_hash == Get(checkpoint.metadata, "graph_signature")
    IN  Truthy(graph_hash) /\ Truthy(checkpoint_hash) /\ graph_hash # checkpoint_hash

\* restore_state hook of executor_a: it reads the entry "last".
restore_state_throws(state) ==
    ~("last" \in DOMAIN state.m /\ state.m["last"].t = "int")

\* Runner._restore_executor_states, lines 312-334, over the entries left.
RECURSIVE restore_entries(_, _, _)
restore_entries(todo, states, es) ==
    IF todo = {} THEN [ok |-> TRUE, exec_state |-> es]
    ELSE LET executor_id == CHOOSE x \in todo : TRUE
             state == states[executor_id]
         IN  IF state.t # "dict" THEN [ok |-> FALSE, exec_state |-> es]
             ELSE IF executor_id \notin Executors THEN [ok |-> FALSE, exec_state |-> es]
             ELSE IF executor_id \notin HookExecutors
                  THEN restore_entries(todo \ {executor_id}, states, es)
             ELSE IF restore_state_throws(state) THEN [ok |-> FALSE, exec_state |-> es]
             ELSE restore_entries(todo \ {executor_id}, states,
                                  [es EXCEPT ![executor_id] = state.m["last"].n])

\* A restoration that leaves out what it cannot use.
restore_well_formed_only(shared, es) ==
    IF EXECUTOR_STATE_KEY \notin DOMAIN shared \/ shared[EXECUTOR_STATE_KEY].t # "dict"
    THEN [ok |-> TRUE, exec_state |-> es]
    ELSE LET states == shared[EXECUTOR_STATE_KEY].m
             usable == {x \in DOMAIN states :
                           /\ states[x].t = "dict"
                           /\ x \in HookExecutors
                           /\ ~restore_state_throws(states[x])}
         IN  restore_entries(usable, states, es)

\* Runner._restore_executor_states, lines 303-310.
restore_executor_states(shared, es) ==
    IF EXECUTOR_STATE_KEY \notin DOMAIN shared THEN [ok |-> TRUE, exec_state |-> es]
    ELSE LET executor_states == shared[EXECUTOR_STATE_KEY]
         IN  IF executor_states.t # "dict" THEN [ok |-> FALSE, exec_state |-> es]
             ELSE restore_entries(DOMAIN executor_states.m, executor_states.m, es)

\* An import of the shared state as it lies in the checkpoint.
imported_encoded(checkpoint) == checkpoint.shared_state

\* Line 287: what import_state is handed.
imported_state(checkpoint) == decode_checkpoint_value(checkpoint.shared_state)

Before ==
    [workflow_id |-> workflow_id, shared_state |-> shared_state,
     exec_state |-> exec_state, messages |-> messages,
     pending_requests |-> pending_requests, events |-> events,
     iteration |-> iteration, resumed |-> resumed_from_checkpoint]

\* What the call does is kept in ret: "True" and "False" are returned,
\* "GraphChanged" and "ValueError" are ValueErrors that leave the call.
Returns(value, st) == [st EXCEPT !.ret = value]

\* A handler that reports every exception.
CaughtWhatever(cls, st) == Returns("False", st)

\* Lines 297-301: a ValueError leaves the call, anything else is reported.
Caught(cls, st) == Returns(IF cls = "ValueError" THEN "ValueError" ELSE "False", st)

\* A lookup whose miss is an error.
NotFoundRaises(st) == Returns("ValueError", st)

\* Lines 263-265.
NoStorage(st) == Returns("False", st)

\* Lines 267-269.
NotFound(st) == Returns("False", st)

\* A restore that marks the runner as resumed without taking the iteration
\* count of the checkpoint.
mark_resumed_only(st, count) == [st EXCEPT !.resumed = TRUE]

\* Runner._mark_resumed, lines 353-359.
mark_resumed(st, count) == [st EXCEPT !.iteration = count, !.resumed = TRUE]

\* The request-info events of a mapping request id -> event, one after the
\* other.
RECURSIVE RequestEvents(_)
RequestEvents(pending) ==
    IF DOMAIN pending = {} THEN <<>>
    ELSE LET id == CHOOSE i \in DOMAIN pending : \A j \in DOMAIN pending : i[2] <= j[2]
         IN  <<pending[id]>> \o RequestEvents([i \in DOMAIN pending \ {id} |-> pending[i]])

\* An application of the checkpoint that makes its requests open again
\* without announcing them.
apply_checkpoint_silently(st, checkpoint) ==
    [st EXCEPT !.messages = checkpoint.messages,
               !.pending_requests = checkpoint.pending_request_info_events]

\* RunnerContext.apply_checkpoint: the queued messages and the open requests
\* are replaced by those of the checkpoint, and every request that is open
\* again is emitted as a RequestInfoEvent.
apply_checkpoint(st, checkpoint) ==
    [st EXCEPT !.messages = checkpoint.messages,
               !.pending_requests = checkpoint.pending_request_info_events,
               !.events = @ \o RequestEvents(checkpoint.pending_request_info_events)]

\* Runner.restore_from_checkpoint: the state it leaves.
restore_from_checkpoint(id, ext, fault) ==
    LET st0 == Before @@ [ret |-> "True"]
    IN  IF Consulted(ext) = "None" THEN NoStorage(st0)
        ELSE IF fault[1] = "load" THEN Caught(fault[2], st0)
        ELSE IF ~Obtainable(id, ext) THEN NotFound(st0)
        ELSE
        LET checkpoint == Loaded(id, ext)
        IN  IF graph_changed(checkpoint) THEN Returns("GraphChanged", st0)
            ELSE
            LET st1 == [st0 EXCEPT !.workflow_id = checkpoint.workflow_id]
                decoded == imported_state(checkpoint)
            IN  IF fault[1] = "import" THEN Caught(fault[2], st1)
                ELSE
                LET st2 == [st1 EXCEPT !.shared_state = decoded.m]
                    restored == restore_executor_states(decoded.m, exec_state)
                    st3 == [st2 EXCEPT !.exec_state = restored.exec_state]
                IN  IF ~restored.ok THEN Caught("ValueError", st3)
                    ELSE IF fault[1] = "apply" THEN Caught(fault[2], st3)
                    ELSE mark_resumed(apply_checkpoint(st3, checkpoint),
                                      checkpoint.iteration_count)

\* The variables restore_from_checkpoint may write take the values of st.
Restored(st) ==
    /\ workflow_id' = st.workflow_id
    /\ shared_state' = st.shared_state
    /\ exec_state' = st.exec_state
    /\ messages' = st.messages
    /\ pending_requests' = st.pending_requests
    /\ events' = st.events
    /\ iteration' = st.iteration
    /\ resumed_from_checkpoint' = st.resumed

RestoreResult(ret) ==
    CASE ret = "True" -> "restored"
      [] ret = "False" -> "restore_false"
      [] ret = "GraphChanged" -> "restore_graph_changed"
      [] OTHER -> "restore_value_error"

\* A caller invokes Runner.restore_from_checkpoint by itself, while no other
\* invocation is under way.
Restore(c, id, ext, fault) ==
    /\ MayCallRunner(c)
    /\ \A d \in Callers : pc[d] = "idle"
    /\ calls' = calls + 1
    /\ LET st == restore_from_checkpoint(id, ext, fault)
       IN  /\ Restored(st)
           /\ res' = [res EXCEPT ![c] = RestoreResult(st.ret)]
    /\ req' = [req EXCEPT ![c] = [id |-> id, ext |-> ext, fault |-> fault]]
    /\ entry' = [entry EXCEPT ![c] = "restore"]
    /\ pc' = [pc EXCEPT ![c] = "exit"]
    /\ UNCHANGED <<cfg, agent_pending, buffer, invocation, request_seq, running, is_running, storeVars, buf,
                   yielded, task, steps_run, iter_at_entry, orphans>>


(***************************************************************************)
(* The Workflow entry points around the Runner.  Each takes the Workflow's *)
(* own running flag or fails, prepares the context, iterates               *)
(* run_until_convergence and releases the flag when it ends.               *)
(***************************************************************************)
Rejected(c, kind) ==
    /\ res' = [res EXCEPT ![c] = "workflow_already_running"]
    /\ entry' = [entry EXCEPT ![c] = kind]
    /\ UNCHANGED <<cfg, agent_pending, buffer, invocation, request_seq, runnerVars, is_running, ctxVars,
                   storeVars, stateVars, pc,
                   buf, yielded, task, steps_run, iter_at_entry, req, orphans>>

Accepted(c, kind) ==
    /\ is_running' = TRUE
    /\ entry' = [entry EXCEPT ![c] = kind]
    /\ res' = [res EXCEPT ![c] = "none"]
    /\ yielded' = [yielded EXCEPT ![c] = <<>>]
    /\ steps_run' = [steps_run EXCEPT ![c] = 0]

\* A fresh run that goes on with the shared state of the run before.
RunOnSharedStateLeft(c, kind) ==
    /\ MayCallWorkflow(c)
    /\ calls' = calls + 1
    /\ IF is_running THEN Rejected(c, kind)
       ELSE /\ Accepted(c, kind)
            /\ LET r == Execute(StartExecutor, NumberMessage(0),
                                [Context EXCEPT !.messages = NoMessages,
                                                !.events = <<>>])
               IN  /\ messages' = r.messages
                   /\ events' = r.events
                   /\ exec_state' = r.exec_state
            /\ iteration' = 0
            /\ pc' = [pc EXCEPT ![c] = "start"]
            /\ UNCHANGED <<cfg, agent_pending, buffer, invocation, request_seq, running,
                           resumed_from_checkpoint,
                           workflow_id, pending_requests, storeVars, shared_state, buf,
                           task, iter_at_entry, req, orphans>>

\* Workflow.run and Workflow.run_stream: a fresh run.  The context and the
\* shared state are reset and the start executor handles the message.
Run(c, kind) ==
    /\ MayCallWorkflow(c)
    /\ calls' = calls + 1
    /\ IF is_running THEN Rejected(c, kind)
       ELSE /\ Accepted(c, kind)
            /\ LET r == Execute(StartExecutor, NumberMessage(0),
                                [Context EXCEPT !.messages = NoMessages,
                                                !.events = <<>>])
               IN  /\ messages' = r.messages
                   /\ events' = r.events
                   /\ exec_state' = r.exec_state
            /\ iteration' = 0
            /\ shared_state' = NoItems
            /\ pc' = [pc EXCEPT ![c] = "start"]
            /\ UNCHANGED <<cfg, agent_pending, buffer, invocation, request_seq, running,
                           resumed_from_checkpoint, workflow_id,
                           pending_requests, storeVars, buf, task, iter_at_entry,
                           req, orphans>>

\* Workflow.send_responses: continues on the context as it is.
SendResponses(c) ==
    /\ MayCallWorkflow(c)
    /\ calls' = calls + 1
    /\ IF is_running THEN Rejected(c, "send_responses")
       ELSE /\ Accepted(c, "send_responses")
            /\ pc' = [pc EXCEPT ![c] = "start"]
            /\ UNCHANGED <<cfg, agent_pending, buffer, invocation, request_seq, runnerVars, ctxVars,
                           storeVars, stateVars, buf, task,
                           iter_at_entry, req, orphans>>

\* Workflow.run_stream_from_checkpoint: restore, then run.
RunStreamFromCheckpoint(c, id, ext, fault) ==
    /\ MayCallWorkflow(c)
    /\ calls' = calls + 1
    /\ IF is_running THEN Rejected(c, "run_stream_from_checkpoint")
       ELSE /\ Accepted(c, "run_stream_from_checkpoint")
            /\ req' = [req EXCEPT ![c] = [id |-> id, ext |-> ext, fault |-> fault]]
            /\ IF Consulted(ext) = "None"
               THEN /\ res' = [res EXCEPT ![c] = "cannot_restore"]
                    /\ pc' = [pc EXCEPT ![c] = "exit"]
                    /\ UNCHANGED <<workflow_id, stateVars, ctxVars, iteration,
                                   resumed_from_checkpoint>>
               ELSE LET st == restore_from_checkpoint(id, ext, fault)
                    IN  /\ Restored(st)
                        /\ res' = [res EXCEPT ![c] =
                                     IF st.ret = "True" THEN "none"
                                     ELSE IF st.ret = "False" THEN "restore_failed"
                                     ELSE RestoreResult(st.ret)]
                        /\ pc' = [pc EXCEPT ![c] =
                                     IF st.ret = "True" THEN "start" ELSE "exit"]
            /\ UNCHANGED <<cfg, agent_pending, buffer, invocation, request_seq, running, storeVars, buf, task, iter_at_entry, orphans>>

\* A caller takes the generator of Runner.run_until_convergence directly.
RunnerCall(c) ==
    /\ MayCallRunner(c)
    /\ calls' = calls + 1
    /\ pc' = [pc EXCEPT ![c] = "start"]
    /\ entry' = [entry EXCEPT ![c] = "runner"]
    /\ res' = [res EXCEPT ![c] = "none"]
    /\ yielded' = [yielded EXCEPT ![c] = <<>>]
    /\ steps_run' = [steps_run EXCEPT ![c] = 0]
    /\ UNCHANGED <<cfg, agent_pending, buffer, invocation, request_seq, runnerVars, is_running, ctxVars,
                   storeVars, stateVars, buf,
                   task, iter_at_entry, req, orphans>>

\* The invocation returns to its caller; the Workflow wrapper's finally
\* releases the Workflow's flag.
Return(c) ==
    /\ pc[c] = "exit"
    /\ is_running' = IF entry[c] \in DirectEntries THEN is_running ELSE FALSE
    /\ pc' = [pc EXCEPT ![c] = "idle"]
    /\ entry' = [entry EXCEPT ![c] = "none"]
    /\ res' = [res EXCEPT ![c] = "none"]
    /\ yielded' = [yielded EXCEPT ![c] = <<>>]
    /\ steps_run' = [steps_run EXCEPT ![c] = 0]
    /\ iter_at_entry' = [iter_at_entry EXCEPT ![c] = 0]
    /\ req' = [req EXCEPT ![c] = NoRequest]
    /\ UNCHANGED <<cfg, agent_pending, buffer, invocation, request_seq, runnerVars, ctxVars, storeVars,
                   stateVars, buf, task,
                   orphans, calls>>

Advance(c, allowFail, checkpointFail) ==
    \/ Enter(c)
    \/ \E close \in BOOLEAN : Yield(c, close)
    \/ InitialCheckpoint(c, checkpointFail)
    \/ LoopHead(c)
    \/ IterationStep(c, allowFail)
    \/ \E close \in BOOLEAN : PollYield(c, close)
    \/ AwaitTask(c)
    \/ Raise(c)
    \/ SuperstepCheckpoint(c, checkpointFail)
    \/ ConvergenceCheck(c)
    \/ Return(c)

Next ==
    \/ \E c \in Callers :
          \/ \E kind \in {"run", "run_stream"} : Run(c, kind)
          \/ SendResponses(c)
          \/ RunnerCall(c)
          \/ Advance(c, TRUE, FALSE)
    \/ OrphanStep(TRUE)

Spec == Init /\ [][Next]_vars

(***************************************************************************)
(* Properties of the single-run guard and of the bound on supersteps,      *)
(* checked under Spec.                                                     *)
(***************************************************************************)
WorkflowEntries == {"run", "run_stream", "send_responses"}

\* Caller c invokes an entry point in this step.
Invokes(c) == MayCall(c) /\ calls' # calls

\* The generator of caller c leaves the guard in this step.
PassesGuard(c) == pc[c] = "start" /\ pc'[c] # "start"

\* The invocation of caller c ends with outcome r in this step.
Ends(c, r) == InBody(c) /\ pc'[c] = "exit" /\ res'[c] = r

\* C1: at most one run is active per Workflow/Runner instance.  No two callers
\* are ever inside run_until_convergence together; an invocation of run,
\* run_stream or send_responses made while another invocation has not
\* returned fails with the Workflow's already-running error and otherwise is
\* accepted; a generator started while another caller is inside the body
\* fails with the Runner's already-running error and otherwise enters.
C1_SingleActiveRun ==
    [][/\ Cardinality({c \in Callers : pc'[c] \in BodyPcs}) <= 1
       /\ \A c \in Callers :
             Invokes(c) /\ entry'[c] \in WorkflowEntries =>
                IF \E d \in Callers \ {c} : pc[d] # "idle"
                THEN res'[c] = "workflow_already_running" /\ pc'[c] = "idle"
                ELSE pc'[c] = "start" /\ is_running'
       /\ \A c \in Callers :
             PassesGuard(c) =>
                IF \E d \in Callers \ {c} : InBody(d)
                THEN res'[c] = "runner_already_running" /\ pc'[c] = "exit"
                ELSE pc'[c] = "pre" /\ running']_vars

\* A second generator was refused while the first is inside the body.
C1_Witness ==
    \E c, d \in Callers :
        /\ res[c] = "runner_already_running"
        /\ pc[c] = "exit"
        /\ InBody(d)

\* C2: a call of run_until_convergence completes at most max_iterations
\* supersteps counted from the iteration counter at entry; it ends as
\* converged only when no message is pending, and with the convergence error
\* only when the counter has reached max_iterations with messages pending.
C2_BoundedRun ==
    [][\A c \in Callers :
          /\ steps_run'[c] > 0 => iter_at_entry'[c] + steps_run'[c] <= max_iterations
          /\ Ends(c, "converged") => ~has_messages
          /\ Ends(c, "not_converged") => iteration >= max_iterations /\ has_messages]_vars

\* A run used up the limit with messages pending and ended in the error.
C2_Witness ==
    \E c \in Callers :
        /\ pc[c] = "exit"
        /\ res[c] = "not_converged"
        /\ steps_run[c] = max_iterations

\* C3: on every exit path of the body of run_until_convergence the running
\* flag is false afterwards, and it is false whenever no caller is inside
\* the body.
C3_RunningFlagCleared ==
    [][/\ \A c \in Callers : InBody(c) /\ pc'[c] \notin BodyPcs => ~running'
       /\ (\A c \in Callers : pc'[c] \notin BodyPcs) => ~running']_vars

\* A consumer closed the stream while the iteration task was still running.
C3_Witness ==
    \E c \in Callers :
        /\ pc[c] = "exit"
        /\ res[c] = "closed"
        /\ orphans # <<>>
        /\ ~running

\* The step in which the invocation of caller c is rejected.
RejectedStep(c) ==
    \/ Invokes(c) /\ res'[c] = "workflow_already_running"
    \/ PassesGuard(c) /\ res'[c] = "runner_already_running"

\* C4: a rejected invocation changes nothing: both running flags, the
\* iteration counter, the resumed flag, the queues, the shared state, the
\* storages, the iteration tasks and every other caller are as before.
C4_RejectionChangesNothing ==
    [][\A c \in Callers :
          RejectedStep(c) =>
             /\ UNCHANGED <<runnerVars, is_running, ctxVars, storeVars, stateVars,
                            task, orphans, buf>>
             /\ \A d \in Callers \ {c} :
                   UNCHANGED <<pc[d], res[d], yielded[d], steps_run[d]>>]_vars

\* An invocation was rejected by the Workflow, and the run that was in
\* flight then converged.
C4_Witness ==
    \E c, d \in Callers :
        /\ res[c] = "workflow_already_running"
        /\ pc[d] = "exit"
        /\ res[d] = "converged"
        /\ steps_run[d] > 0

(***************************************************************************)
(* Restoring.  The storages hold checkpoints written before this Runner    *)
(* was built: by a run of the same graph, by a run of another graph, by a  *)
(* writer that recorded no signature, or with a damaged executor-state     *)
(* record.  SpecRestore restores from them and runs on.                    *)
(***************************************************************************)
Signatures == {"absent", "", "g1", "g2"}

SavedMetadata(sig, count) ==
    LET base == [superstep |-> count, checkpoint_type |-> "superstep"]
    IN  IF sig = "absent" THEN base ELSE Put(base, "graph_signature", sig)

ExecutorStates(states) == (EXECUTOR_STATE_KEY :> states) @@ ("k" :> IntV(7))

SharedWellFormed ==
    ExecutorStates(DictV(("executor_a" :> DictV([last |-> IntV(1)]))
                         @@ ("executor_b" :> DictV(NoItems))))

SharedMalformed ==
    {ExecutorStates(IntV(1)),
     ExecutorStates(DictV(("executor_a" :> IntV(1)))),
     ExecutorStates(DictV(("ghost" :> DictV([last |-> IntV(1)]))))}

SharedRefusedByHook == ExecutorStates(DictV(("executor_a" :> DictV(NoItems))))

SharedVariants ==
    {NoItems, SharedWellFormed, SharedRefusedByHook} \cup SharedMalformed

PendingOne == [NoMessages EXCEPT !["executor_a"] = <<Message(NumberMessage(1), "executor_a")>>]

SavedCheckpoint(sig, shared, msgs, count) ==
    [workflow_id |-> "wf_saved",
     iteration_count |-> count,
     shared_state |-> encode_checkpoint_value(DictV(shared)),
     messages |-> EncodeMessages(msgs),
     pending_request_info_events |->
         (RequestId(0) :> RequestInfoEvent(RequestId(0), "executor_b", MockRequest(1))),
     metadata |-> SavedMetadata(sig, count)]

SavedCheckpoints ==
    {SavedCheckpoint(sig, SharedWellFormed, PendingOne, 1) : sig \in Signatures}
    \cup {SavedCheckpoint("g1", shared, PendingOne, 1) : shared \in SharedVariants}

\* CheckpointStorage.save_checkpoint by an earlier writer, into the storage
\* of the context when it has one and into an external storage otherwise.
SaveCheckpoint(ext, checkpoint) ==
    /\ calls = 0
    /\ ext = ~has_checkpointing
    /\ \A c \in Callers : pc[c] = "idle" /\ entry[c] = "none"
    /\ storage = <<>> /\ ext_storage = <<>>
    /\ IF ext
       THEN ext_storage' = Append(ext_storage, checkpoint) /\ UNCHANGED storage
       ELSE storage' = Append(storage, checkpoint) /\ UNCHANGED ext_storage
    /\ UNCHANGED <<cfg, agent_pending, buffer, invocation, request_seq, runnerVars, is_running, ctxVars,
                   stateVars, callerVars,
                   orphans, calls>>

InitRestore ==
    Constructed([limit : {MaxIterations - 1}, checkpointing : BOOLEAN,
                 graph_signature_hash : {"None", "", "g1"},
                 graph : {"cycle"}])

\* The first checkpoint of either storage: one of the two is in the storage
\* that is consulted, if a checkpoint was saved at all.
RestoreIds == {"ctx", "ext"} \X {1}

NextRestore ==
    \/ \E ext \in BOOLEAN, checkpoint \in SavedCheckpoints : SaveCheckpoint(ext, checkpoint)
    \/ \E c \in Callers, id \in RestoreIds, ext \in BOOLEAN, fault \in Faults :
          \/ Restore(c, id, ext, fault)
          \/ RunStreamFromCheckpoint(c, id, ext, fault)
    \/ \E c \in Callers :
          \/ RunnerCall(c)
          \/ Enter(c)
          \/ Yield(c, FALSE)
          \/ LoopHead(c)
          \/ IterationStep(c, FALSE)
          \/ PollYield(c, FALSE)
          \/ AwaitTask(c)
          \/ SuperstepCheckpoint(c, FALSE)
          \/ ConvergenceCheck(c)
          \/ Return(c)

SpecRestore == InitRestore /\ [][NextRestore]_vars

(***************************************************************************)
(* Properties of restore_from_checkpoint, checked under SpecRestore.  The  *)
(* arguments of the call made in a step are read from req'.                *)
(***************************************************************************)
\* Caller c calls Runner.restore_from_checkpoint in this step.
RestoreStep(c) == pc[c] = "idle" /\ pc'[c] = "exit" /\ entry'[c] = "restore"

\* Caller c calls Workflow.run_stream_from_checkpoint in this step and is
\* not turned away by the Workflow's guard.
ResumeStep(c) ==
    Invokes(c) /\ entry'[c] = "run_stream_from_checkpoint" /\ ~is_running

NoStorageAtAll(r) == ~cfg.checkpointing /\ ~r.ext

InConsultedStorage(r) ==
    IF cfg.checkpointing
    THEN r.id[1] = "ctx" /\ r.id[2] \in 1..Len(storage)
    ELSE r.ext /\ r.id[1] = "ext" /\ r.id[2] \in 1..Len(ext_storage)

\* The call with arguments r gets hold of a checkpoint.
Loads(r) == InConsultedStorage(r) /\ r.fault[1] # "load"

TheCheckpoint(r) ==
    IF cfg.checkpointing THEN storage[r.id[2]] ELSE ext_storage[r.id[2]]

NonEmpty(str) == str # "None" /\ str # ""

SignatureOf(checkpoint) ==
    IF "graph_signature" \in DOMAIN checkpoint.metadata
    THEN checkpoint.metadata["graph_signature"] ELSE "None"

Mismatch(checkpoint) ==
    /\ NonEmpty(cfg.graph_signature_hash)
    /\ NonEmpty(SignatureOf(checkpoint))
    /\ cfg.graph_signature_hash # SignatureOf(checkpoint)

SharedOf(checkpoint) == decode_checkpoint_value(checkpoint.shared_state).m

\* The reserved entry is no mapping, or holds a state that is no mapping, or
\* names an executor that does not exist.
Malformed(shared) ==
    /\ EXECUTOR_STATE_KEY \in DOMAIN shared
    /\ \/ shared[EXECUTOR_STATE_KEY].t # "dict"
       \/ \E x \in DOMAIN shared[EXECUTOR_STATE_KEY].m :
             \/ shared[EXECUTOR_STATE_KEY].m[x].t # "dict"
             \/ x \notin Executors

\* Some restore_state hook refuses the state recorded for its executor.
HookRefuses(shared) ==
    /\ EXECUTOR_STATE_KEY \in DOMAIN shared
    /\ shared[EXECUTOR_STATE_KEY].t = "dict"
    /\ \E x \in DOMAIN shared[EXECUTOR_STATE_KEY].m \cap HookExecutors :
          restore_state_throws(shared[EXECUTOR_STATE_KEY].m[x])

\* C7: a loaded checkpoint is refused with the graph-changed error exactly
\* when the runner's signature and the checkpoint's are both non-empty and
\* differ; otherwise no topology check stands in the way, and a well-formed
\* checkpoint is restored.
C7_TopologyCheck ==
    [][\A c \in Callers :
          RestoreStep(c) /\ Loads(req'[c]) =>
             LET checkpoint == TheCheckpoint(req'[c])
             IN  /\ res'[c] = "restore_graph_changed" <=> Mismatch(checkpoint)
                 /\ /\ ~Mismatch(checkpoint)
                    /\ req'[c].fault = NoFault
                    /\ ~Malformed(SharedOf(checkpoint))
                    /\ ~HookRefuses(SharedOf(checkpoint))
                    => res'[c] = "restored" /\ resumed_from_checkpoint']_vars

\* A checkpoint of another graph was refused.
C7_Witness ==
    \E c \in Callers :
        /\ pc[c] = "exit"
        /\ entry[c] = "restore"
        /\ res[c] = "restore_graph_changed"
        /\ SignatureOf(TheCheckpoint(req[c])) = "g2"

\* A failure of a collaborator reaches the call with arguments r.
FaultReached(r) ==
    \/ r.fault[1] = "load" /\ ~NoStorageAtAll(r)
    \/ /\ r.fault[1] \in {"import", "apply"}
       /\ InConsultedStorage(r)
       /\ ~Mismatch(TheCheckpoint(r))
       /\ r.fault[1] = "apply" =>
             /\ ~Malformed(SharedOf(TheCheckpoint(r)))
             /\ ~HookRefuses(SharedOf(TheCheckpoint(r)))

\* The executor states of the checkpoint are reached and cannot be restored.
StatesRefused(r) ==
    /\ Loads(r)
    /\ r.fault[1] # "import"
    /\ ~Mismatch(TheCheckpoint(r))
    /\ Malformed(SharedOf(TheCheckpoint(r))) \/ HookRefuses(SharedOf(TheCheckpoint(r)))

\* C8 as stated: the topology mismatch is the only error that leaves
\* restore_from_checkpoint; every other failure returns False.
C8_OnlyMismatchPropagates ==
    \A c \in Callers :
        pc[c] = "exit" /\ entry[c] = "restore" =>
           res[c] \in {"restored", "restore_false", "restore_graph_changed"}

\* C8 amended: a failure that is no ValueError is caught and returns False;
\* every ValueError leaves the call: the topology mismatch, the errors of
\* the executor-state restoration, and a ValueError raised while loading,
\* importing or applying.
C8_ValueErrorsPropagate ==
    [][\A c \in Callers :
          RestoreStep(c) =>
             /\ FaultReached(req'[c]) /\ req'[c].fault[2] = "Exception"
                   => res'[c] = "restore_false"
             /\ FaultReached(req'[c]) /\ req'[c].fault[2] = "ValueError"
                   => res'[c] = "restore_value_error"
             /\ StatesRefused(req'[c]) => res'[c] = "restore_value_error"
             /\ res'[c] = "restore_value_error"
                   => \/ FaultReached(req'[c]) /\ req'[c].fault[2] = "ValueError"
                      \/ StatesRefused(req'[c])]_vars

\* A checkpoint of the runner's own topology whose reserved executor-state
\* entry is no mapping made the call raise a ValueError.
C8_Witness ==
    \E c \in Callers :
        /\ pc[c] = "exit"
        /\ entry[c] = "restore"
        /\ req[c].fault = NoFault
        /\ InConsultedStorage(req[c])
        /\ ~Mismatch(TheCheckpoint(req[c]))
        /\ EXECUTOR_STATE_KEY \in DOMAIN SharedOf(TheCheckpoint(req[c]))
        /\ SharedOf(TheCheckpoint(req[c]))[EXECUTOR_STATE_KEY].t # "dict"
        /\ res[c] = "restore_value_error"

\* C9: when the executor-state record of the restored shared state is
\* malformed, restore_from_checkpoint raises, and neither the resumed flag
\* nor the iteration counter nor the queues are written.
C9_MalformedStatesRaise ==
    [][\A c \in Callers :
          /\ RestoreStep(c)
          /\ Loads(req'[c])
          /\ req'[c].fault[1] # "import"
          /\ ~Mismatch(TheCheckpoint(req'[c]))
          /\ Malformed(SharedOf(TheCheckpoint(req'[c])))
          => /\ res'[c] = "restore_value_error"
             /\ UNCHANGED <<resumed_from_checkpoint, iteration, messages,
                            pending_requests>>]_vars

\* A checkpoint naming an executor that does not exist made the call raise.
C9_Witness ==
    \E c \in Callers :
        /\ pc[c] = "exit"
        /\ entry[c] = "restore"
        /\ req[c].fault = NoFault
        /\ res[c] = "restore_value_error"
        /\ InConsultedStorage(req[c])
        /\ LET shared == SharedOf(TheCheckpoint(req[c]))
           IN  /\ shared[EXECUTOR_STATE_KEY].t = "dict"
               /\ "ghost" \in DOMAIN shared[EXECUTOR_STATE_KEY].m
        /\ ~resumed_from_checkpoint

\* The executors with a restore_state hook have the states recorded in shared.
HooksGiven(shared, es) ==
    \A e \in HookExecutors :
        (/\ EXECUTOR_STATE_KEY \in DOMAIN shared
         /\ e \in DOMAIN shared[EXECUTOR_STATE_KEY].m)
        => es[e] = shared[EXECUTOR_STATE_KEY].m[e].m["last"].n

\* C11: a restore that returns True leaves the workflow id, the decoded
\* shared state, the executor states, the pending messages and requests, the
\* iteration count and the resumed flag of the checkpoint; and the writes
\* come in that order: of a restore that ends early, a later write is made
\* only when every earlier one was made.
C11_RestoreWritesInOrder ==
    [][\A c \in Callers :
          RestoreStep(c) /\ InConsultedStorage(req'[c])
          => LET checkpoint == TheCheckpoint(req'[c])
                 shared == SharedOf(checkpoint)
                 idDone == workflow_id' = checkpoint.workflow_id
                 sharedDone == shared_state' = shared
                 hooksDone == HooksGiven(shared, exec_state')
                 applyDone == /\ messages' = checkpoint.messages
                              /\ pending_requests' = checkpoint.pending_request_info_events
                 markDone == /\ iteration' = checkpoint.iteration_count
                             /\ resumed_from_checkpoint'
             IN  /\ res'[c] = "restored"
                    => idDone /\ sharedDone /\ hooksDone /\ applyDone /\ markDone
                 /\ shared_state' # shared_state => idDone
                 /\ exec_state' # exec_state => idDone /\ sharedDone
                 /\ (messages' # messages \/ pending_requests' # pending_requests)
                    => idDone /\ sharedDone /\ hooksDone
                 /\ (iteration' # iteration \/ resumed_from_checkpoint' # resumed_from_checkpoint)
                    => idDone /\ sharedDone /\ hooksDone /\ applyDone
                       /\ res'[c] = "restored"]_vars

\* A checkpoint with a recorded executor state, a pending message and an
\* open request was restored into a fresh runner.
C11_Witness ==
    \E c \in Callers :
        /\ pc[c] = "exit"
        /\ entry[c] = "restore"
        /\ res[c] = "restored"
        /\ workflow_id = "wf_saved"
        /\ exec_state["executor_a"] = 1
        /\ messages["executor_a"] # <<>>
        /\ DOMAIN pending_requests = {RequestId(0)}
        /\ iteration = 1
        /\ resumed_from_checkpoint

\* No checkpoint can be obtained by the call with arguments r.
Unobtainable(r) ==
    \/ NoStorageAtAll(r)
    \/ r.fault[1] # "load" /\ ~InConsultedStorage(r)

\* C10: when no checkpoint can be obtained, restore_from_checkpoint returns
\* False and writes nothing, and run_stream_from_checkpoint ends in an error
\* without entering run_until_convergence.
C10_NothingToRestore ==
    [][\A c \in Callers :
          /\ RestoreStep(c) /\ Unobtainable(req'[c])
             => /\ res'[c] = "restore_false"
                /\ UNCHANGED <<runnerVars, ctxVars, stateVars>>
          /\ ResumeStep(c) /\ Unobtainable(req'[c])
             => /\ res'[c] \in {"cannot_restore", "restore_failed"}
                /\ pc'[c] = "exit"
                /\ steps_run'[c] = 0
                /\ UNCHANGED <<runnerVars, ctxVars, stateVars>>]_vars

\* A storage was consulted, held a checkpoint, but not the one asked for.
C10_Witness ==
    \E c \in Callers :
        /\ pc[c] = "exit"
        /\ entry[c] = "restore"
        /\ req[c].fault = NoFault
        /\ ~NoStorageAtAll(req[c])
        /\ ~InConsultedStorage(req[c])
        /\ Len(storage) + Len(ext_storage) > 0
        /\ res[c] = "restore_false"

(***************************************************************************)
(* The round trip of shared state through a checkpoint.  An executor       *)
(* stores a value, a checkpoint is taken, and the Runner restores from it  *)
(* while the shared state is still the one that was exported.              *)
(***************************************************************************)
Leaves == {NoneV, IntV(1), StrV("s")}

\* "LocalRecord" is a dataclass the decoder cannot import.
Classes == {"NumberMessage", "LocalRecord"}

RECURSIVE Values(_)
Values(depth) ==
    IF depth = 0 THEN Leaves
    ELSE LET sub == Values(depth - 1)
         IN  sub
             \cup {ListV(<<x>>) : x \in sub}
             \cup {DictV("a" :> x) : x \in sub}
             \cup {DataV(cls, [data |-> x]) : cls \in Classes, x \in sub}
             \cup {DictV((DATACLASS_MARKER :> StrV("NumberMessage"))
                         @@ ("value" :> DictV([data |-> x]))) : x \in sub}

\* SharedState.set by an executor, before any checkpoint exists.
SharedSet(key, value) ==
    /\ calls = 0
    /\ storage = <<>>
    /\ key \notin DOMAIN shared_state
    /\ shared_state' = Put(shared_state, key, value)
    /\ UNCHANGED <<cfg, agent_pending, buffer, invocation, request_seq, runnerVars, is_running, ctxVars,
                   storeVars, exec_state,
                   callerVars, orphans, calls>>

\* Runner._create_checkpoint_if_enabled, once.
TakeCheckpoint ==
    /\ has_checkpointing
    /\ storage = <<>>
    /\ \A c \in Callers : pc[c] = "idle"
    /\ CheckpointEffects("superstep", FALSE)
    /\ UNCHANGED <<cfg, agent_pending, buffer, invocation, request_seq, runnerVars, is_running, ctxVars,
                   ext_storage, exec_state,
                   callerVars, orphans, calls>>

InitCodec ==
    Constructed([limit : {MaxIterations}, checkpointing : {TRUE},
                 graph_signature_hash : {"g1"}, graph : {"cycle"}])

NextCodec ==
    \/ \E value \in Values(MaxDepth) : SharedSet("k", value)
    \/ TakeCheckpoint
    \/ \E c \in Callers : Restore(c, <<"ctx", 1>>, FALSE, NoFault) \/ Return(c)

SpecCodec == InitCodec /\ [][NextCodec]_vars

\* Values the codec carries through: no dataclass the decoder cannot
\* import, and no mapping that carries a reserved marker key of its own.
RECURSIVE Supported(_)
Supported(v) ==
    CASE v.t = "dataclass" ->
           v.s \in KnownClasses /\ \A k \in DOMAIN v.m : Supported(v.m[k])
      [] v.t = "dict" ->
           /\ DATACLASS_MARKER \notin DOMAIN v.m
           /\ MODEL_MARKER \notin DOMAIN v.m
           /\ \A k \in DOMAIN v.m : Supported(v.m[k])
      [] v.t = "list" -> \A k \in DOMAIN v.m : Supported(v.m[k])
      [] OTHER -> TRUE

InitResume ==
    Constructed([limit : Limits, checkpointing : {TRUE}, graph_signature_hash : {"g1"},
                 graph : {"cycle"}])

NextResume ==
    \E c \in Callers :
        \/ Run(c, "run")
        \/ \E n \in 1..MaxCheckpoints :
              RunStreamFromCheckpoint(c, <<"ctx", n>>, FALSE, NoFault)
        \/ Enter(c)
        \/ Yield(c, FALSE)
        \/ InitialCheckpoint(c, FALSE)
        \/ LoopHead(c)
        \/ IterationStep(c, FALSE)
        \/ PollYield(c, FALSE)
        \/ AwaitTask(c)
        \/ SuperstepCheckpoint(c, FALSE)
        \/ ConvergenceCheck(c)
        \/ Return(c)

SpecResume == InitResume /\ [][NextResume]_vars

(***************************************************************************)
(* The uninterrupted run as a function of the configuration: the context   *)
(* after the initial execution and after each superstep.                   *)
(***************************************************************************)
RECURSIVE DeliverAll(_, _)
DeliverAll(pend, ctx) ==
    IF pend = NoMessages THEN ctx
    ELSE LET src == CHOOSE e \in Executors : pend[e] # <<>>
         IN  DeliverAll([pend EXCEPT ![src] = Tail(@)],
                        CHOOSE next \in SendAll(edge_runner_map(src), Head(pend[src]),
                                                {ctx}) : TRUE)

SuperstepOf(ctx) ==
    DeliverAll(ctx.messages, [ctx EXCEPT !.messages = NoMessages, !.events = <<>>])

AfterInitialExecution ==
    Execute(StartExecutor, NumberMessage(0),
            [messages |-> NoMessages, events |-> <<>>,
             exec_state |-> [e \in HookExecutors |-> 0], buffer |-> <<>>])

RECURSIVE Supersteps(_, _)
Supersteps(ctx, done) ==
    IF done >= max_iterations \/ (done > 0 /\ ctx.messages = NoMessages) THEN <<>>
    ELSE <<SuperstepOf(ctx)>> \o Supersteps(SuperstepOf(ctx), done + 1)

Uninterrupted == Supersteps(AfterInitialExecution, 0)

\* The events of the supersteps after superstep k of the uninterrupted run.
RECURSIVE EventsAfter(_)
EventsAfter(k) ==
    IF k >= Len(Uninterrupted) THEN <<>>
    ELSE Uninterrupted[k + 1].events \o EventsAfter(k + 1)

FinalShared ==
    EXECUTOR_STATE_KEY :>
        DictV([e \in HookExecutors |->
                  DictV([last |-> IntV(Uninterrupted[Len(Uninterrupted)].exec_state[e])])])

\* The run of caller c resumes a checkpoint that holds no pending message
\* and was taken before the iteration limit.
ResumesFinished(c) ==
    /\ entry[c] = "run_stream_from_checkpoint"
    /\ req[c].id[2] \in DOMAIN storage
    /\ storage[req[c].id[2]].messages = NoMessages
    /\ storage[req[c].id[2]].iteration_count < max_iterations

\* The run of caller c, fresh or resumed, follows the uninterrupted run and
\* ends after extra supersteps more than it.
Follows(c, extra) ==
    LET total == Len(Uninterrupted)
    IN  /\ pc[c] \in {"tail", "check"} =>
              /\ iteration <= total + extra
              /\ messages = IF iteration <= total
                            THEN Uninterrupted[iteration].messages ELSE NoMessages
        /\ pc[c] = "exit" /\ res[c] \in {"converged", "not_converged"} =>
              /\ iter_at_entry[c] + steps_run[c] = total + extra
              /\ (res[c] = "converged") = (Uninterrupted[total].messages = NoMessages)
              /\ yielded[c] = (IF entry[c] = "run" THEN AfterInitialExecution.events
                               ELSE <<>>) \o EventsAfter(iter_at_entry[c])
              /\ shared_state = FinalShared
              /\ exec_state = Uninterrupted[total].exec_state

\* The run of caller c is a fresh run, or resumes a checkpoint that the
\* uninterrupted run has taken.
OfUninterrupted(c) ==
    \/ entry[c] = "run"
    \/ /\ entry[c] = "run_stream_from_checkpoint"
       /\ req[c].id[2] \in DOMAIN storage
          => storage[req[c].id[2]].iteration_count <= Len(Uninterrupted)

EdgeGraphs ==
    {"fan_out_all", "fan_out_some", "fan_out_none", "fan_in", "fan_in_twice",
     "switch_overlap", "switch_default", "switch_no_default"}

InitEdges ==
    Constructed([limit : Limits, checkpointing : {FALSE}, graph_signature_hash : {"g1"},
                 graph : EdgeGraphs])

NextEdges ==
    \E c \in Callers :
        \/ Run(c, "run")
        \/ Enter(c)
        \/ Yield(c, FALSE)
        \/ LoopHead(c)
        \/ IterationStep(c, FALSE)
        \/ PollYield(c, FALSE)
        \/ AwaitTask(c)
        \/ ConvergenceCheck(c)
        \/ Return(c)

SpecEdges == InitEdges /\ [][NextEdges]_vars

\* The iteration task of caller c delivers the head message of src's bucket
\* in this step.
Delivers(c, src) ==
    /\ task[c].st = "running"
    /\ task[c].pend[src] # <<>>
    /\ edge_runner_map(src) # {}
    /\ task'[c] = [task[c] EXCEPT !.pend[src] = Tail(@)]

DeliveredData(c, src) == normalize_message_payload(Head(task[c].pend[src]).data)

\* The events queued in this step.
NewEvents == SubSeq(events', Len(events) + 1, Len(events'))

EventsOf(e, evs) == SelectSeq(evs, LAMBDA ev : ev.e = e)

\* Whether the events and messages that executor e produced in this step are
\* those of n executions of its handler on data.
HandledTimes(e, data, n) ==
    LET r == mock_handler(e, data)
        Times(seq) == IF n = 0 THEN <<>>
                      ELSE IF n = 1 THEN seq ELSE seq \o seq
    IN  /\ Len(messages'[e]) >= Len(messages[e])
        /\ messages'[e] = messages[e] \o Times(r.send)
        /\ Len(events') >= Len(events)
        /\ EventsOf(e, NewEvents) = Times(r.out)

\* The only edge runner of src is a group of the given kind.
OnlyGroup(src, kind) ==
    \E g \in edge_groups : edge_runner_map(src) = {g} /\ g.kind = kind

TheGroup(src) == CHOOSE g \in edge_runner_map(src) : TRUE

\* C12: when a message of the source of a fan-out group is delivered, every
\* target that the selector of the group accepts handles that message
\* exactly once, no other executor handles anything, and this is so in
\* whatever order the targets are served.
C12_FanOutToAcceptedTargets ==
    [][\A c \in Callers, src \in Executors :
          Delivers(c, src) /\ OnlyGroup(src, "fan_out")
          => LET g == TheGroup(src)
                 data == DeliveredData(c, src)
                 accepted == selection_func(g, data) \cap g.targets
             IN  \A e \in Executors \ Aggregators :
                    HandledTimes(e, data, IF e \in accepted THEN 1 ELSE 0)]_vars

\* A selector accepted executor_c and executor_d, not executor_b, and both
\* have handled the message.
C12_Witness ==
    /\ cfg.graph = "fan_out_some"
    /\ messages["executor_c"] # <<>>
    /\ messages["executor_d"] # <<>>
    /\ messages["executor_b"] = <<>>
    /\ \E c \in Callers : task[c].st = "running"

\* What a fan-in delivery step of caller c for source src does: with the
\* delivered message the buffer holds batch; when every source of the group
\* has contributed to batch the target handles all of batch in one call and
\* the buffer is empty afterwards, and otherwise the target handles nothing
\* and batch is kept.
FanInStep(c, src, sized) ==
    LET g == TheGroup(src)
        tgt == CHOOSE t \in g.targets : TRUE
        batch == Append(buffer, Message(DeliveredData(c, src), src))
        contributing == {batch[i].source_id : i \in DOMAIN batch}
    IN  IF contributing = g.sources
        THEN /\ NewEvents = <<Output(tgt, Sum([i \in DOMAIN batch |-> batch[i].data]))>>
             /\ buffer' = <<>>
             /\ sized => Len(batch) = Cardinality(contributing)
        ELSE /\ NewEvents = <<>>
             /\ buffer' = batch

FirstTrue(g, data, i) ==
    /\ data.m["data"].n < g.cases[i].below
    /\ \A j \in 1..(i - 1) : ~(data.m["data"].n < g.cases[j].below)

\* C14: when a message of the source of a switch-case group is delivered,
\* it is handled once by the target of the first case, in declaration
\* order, whose condition is true, by the default target when no case is
\* true, and by nobody, without an error, when no case is true and there is
\* no default; no other executor handles anything.
C14_SwitchCaseOneBranch ==
    [][\A c \in Callers, src \in Executors :
          Delivers(c, src) /\ OnlyGroup(src, "switch_case")
          => LET g == TheGroup(src)
                 data == DeliveredData(c, src)
                 branch == IF \E i \in DOMAIN g.cases : FirstTrue(g, data, i)
                           THEN g.cases[CHOOSE i \in DOMAIN g.cases :
                                           FirstTrue(g, data, i)].target
                           ELSE g.default
             IN  /\ \A e \in Executors \ Aggregators :
                       HandledTimes(e, data, IF e = branch THEN 1 ELSE 0)
                 /\ task'[c].st = "running"]_vars

\* No case was true of the message with data 3 and the default target
\* executor_d has handled it.
C14_Witness ==
    /\ cfg.graph = "switch_default"
    /\ messages["executor_d"] # <<>>
    /\ messages["executor_b"] = <<>>
    /\ messages["executor_c"] = <<>>

(***************************************************************************)
(* The superstep barrier, checked under Spec.                              *)
(***************************************************************************)
IsPrefix(a, b) == Len(a) <= Len(b) /\ a = SubSeq(b, 1, Len(a))
IsSuffix(a, b) == Len(a) <= Len(b) /\ a = SubSeq(b, Len(b) - Len(a) + 1, Len(b))

\* The iteration task of caller c takes a step.
TaskStep(c) == Live(task[c]) /\ task'[c] # task[c] /\ task'[c] # NoTask

FailureSeen(c) == pc[c] = "poll" /\ pc'[c] = "fail"

\* C16: when the delivery of a superstep has failed, all events queued at
\* that moment are taken and yielded, in order, and only then does the
\* failure leave the generator; an executor-failed event has reached the
\* caller by then; the iteration counter is not incremented, no checkpoint
\* is stored and no further iteration task is started.
C16_EventsBeforeFailure ==
    [][\A c \in Callers :
          /\ FailureSeen(c)
             => /\ task[c].st = "failed"
                /\ buf'[c] = events /\ events' = <<>>
                /\ task'[c] = NoTask
                /\ UNCHANGED <<iteration, steps_run, storeVars>>
          /\ pc[c] = "fail"
             => /\ pc'[c] \in {"fail", "exit"}
                /\ task'[c] = NoTask
                /\ UNCHANGED <<iteration, steps_run, storeVars>>
                /\ buf'[c] # buf[c]
                   => /\ yielded'[c] = Append(yielded[c], Head(buf[c]))
                      /\ buf'[c] = Tail(buf[c]) \/ res'[c] = "closed"
                /\ pc'[c] = "exit" => res'[c] \in {"delivery_failed", "closed"}
                /\ res'[c] = "delivery_failed"
                   => /\ buf[c] = <<>>
                      /\ \E i \in DOMAIN yielded[c] : yielded[c][i].k = "failed"]_vars

\* A run has ended with the failure of its first superstep, after the
\* executor-failed event was yielded.
C16_Witness ==
    \E c \in Callers :
        /\ pc[c] = "exit"
        /\ res[c] = "delivery_failed"
        /\ iteration = 0
        /\ yielded[c] # <<>>
        /\ yielded[c][Len(yielded[c])].k = "failed"

(***************************************************************************)
(* Streaming of events.  SpecStream runs streamed workflows over a cycle   *)
(* and over a fan-out whose branches answer in the same superstep.  The    *)
(* consumer keeps iterating the stream, so a yield that stays possible     *)
(* happens, and the await of a finished task returns; nothing is assumed   *)
(* about the iteration task, whose handlers may never return.              *)
(***************************************************************************)
StreamGraphs == {"cycle", "fan_out_all"}

InitStream ==
    Constructed([limit : Limits, checkpointing : {FALSE}, graph_signature_hash : {"g1"},
                 graph : StreamGraphs])

NextStream ==
    \E c \in Callers :
        \/ Run(c, "run_stream")
        \/ Enter(c)
        \/ Yield(c, FALSE)
        \/ LoopHead(c)
        \/ IterationStep(c, FALSE)
        \/ PollYield(c, FALSE)
        \/ AwaitTask(c)
        \/ ConvergenceCheck(c)
        \/ Return(c)

ConsumerIterates ==
    \A c \in Callers :
        /\ WF_vars(PollYield(c, FALSE))
        /\ WF_vars(Yield(c, FALSE))
        /\ WF_vars(AwaitTask(c))

SpecStream == InitStream /\ [][NextStream]_vars /\ ConsumerIterates

\* The number of events a run of the graphs above can yield.
YieldCounts == 0..(MaxIterations + 1)

\* C17: when events are queued while the iteration task of a run is still
\* under way, the caller is handed a further event whether or not the task
\* ever advances; a yield
\* from the polling loop hands over the oldest queued event and leaves the
\* task, its undelivered messages and the message queues as they are.
C17_EventsStreamed ==
    /\ [][\A c \in Callers :
             pc[c] = "poll" /\ pc'[c] = "poll" /\ yielded'[c] # yielded[c]
             => /\ yielded'[c] = Append(yielded[c], Head(events))
                /\ events' = Tail(events)
                /\ task'[c] = task[c]
                /\ UNCHANGED <<messages, buffer, iteration, orphans>>]_vars
    /\ \A c \in Callers : \A n \in YieldCounts :
          (pc[c] = "poll" /\ Live(task[c]) /\ has_events /\ Len(yielded[c]) = n)
             ~> (Len(yielded[c]) > n)

\* The output of the first branch to answer has reached the caller while
\* the answers of the other branches are still undelivered.
C17_Witness ==
    \E c \in Callers :
        /\ pc[c] = "poll"
        /\ cfg.graph = "fan_out_all"
        /\ task[c].st = "running"
        /\ \E e \in Executors : task[c].pend[e] # <<>>
        /\ Len(yielded[c]) = 1
        /\ yielded[c][1].k = "output"
        /\ events = <<>>

(***************************************************************************)
(* Checkpoint creation.  SpecCheckpoint runs the cycle with and without    *)
(* checkpointing, fresh and resumed from a checkpoint saved earlier, with  *)
(* snapshot hooks that throw and saves that fail.                          *)
(***************************************************************************)
EarlierCheckpoint == SavedCheckpoint("g1", SharedWellFormed, PendingOne, 1)

InitCheckpoint ==
    Constructed([limit : Limits, checkpointing : BOOLEAN, graph_signature_hash : {"g1"},
                 graph : {"cycle"}])

NextCheckpoint ==
    \/ \E ext \in BOOLEAN : SaveCheckpoint(ext, EarlierCheckpoint)
    \/ \E c \in Callers :
          \/ Run(c, "run")
          \/ \E id \in RestoreIds, ext \in BOOLEAN :
                RunStreamFromCheckpoint(c, id, ext, NoFault)
          \/ Enter(c)
          \/ Yield(c, FALSE)
          \/ InitialCheckpoint(c, TRUE)
          \/ LoopHead(c)
          \/ IterationStep(c, FALSE)
          \/ PollYield(c, FALSE)
          \/ AwaitTask(c)
          \/ SuperstepCheckpoint(c, TRUE)
          \/ ConvergenceCheck(c)
          \/ Return(c)

SpecCheckpoint == InitCheckpoint /\ [][NextCheckpoint]_vars

\* The run of caller c was started by Workflow.run, not from a checkpoint.
FreshRun(c) == entry[c] \in {"run", "run_stream"}

\* Caller c leaves the pre-loop part of the generator in this step, its
\* pre-loop events yielded: for the checkpoint, or straight for the loop.
LoopEntry(c) == pc[c] = "pre" /\ buf[c] = <<>> /\ pc'[c] # "pre"

\* Caller c attempts the initial checkpoint in this step.
InitialCheckpointStep(c) == pc[c] = "pre" /\ pc'[c] = "loop"

StoresInitial ==
    /\ Len(storage') = Len(storage) + 1
    /\ storage'[Len(storage')].metadata["checkpoint_type"] = "initial"

\* What the entry to the loop does, given whether the run counts as fresh.
InitialCheckpointRule(c, fresh) ==
    /\ LoopEntry(c)
       => /\ InitialCheckpointStep(c) <=> has_messages /\ has_checkpointing /\ fresh
          /\ InitialCheckpointStep(c)
             => /\ task[c] = NoTask /\ steps_run[c] = 0 /\ yielded'[c] = yielded[c]
                /\ storage' = storage \/ StoresInitial
    /\ StoresInitial /\ InBody(c) => InitialCheckpointStep(c) /\ FreshRun(c)

\* C18: at the entry to the superstep loop, the pre-loop events yielded and
\* no superstep started, the initial checkpoint is attempted exactly when
\* messages are pending, checkpointing is enabled and the run is a fresh
\* one; no run resumed from a checkpoint stores an initial checkpoint.
C18_InitialCheckpointOfFreshRuns ==
    [][\A c \in Callers : InitialCheckpointRule(c, FreshRun(c))]_vars

\* The same with the Runner's resumed flag deciding what counts as fresh.
InitialCheckpointUnlessFlagged ==
    [][\A c \in Callers : InitialCheckpointRule(c, ~resumed_from_checkpoint)]_vars

\* A fresh run with checkpointing and pending messages is past the entry to
\* the loop and has attempted no initial checkpoint.
FreshRunWithoutInitialCheckpoint ==
    \E c \in Callers :
        /\ FreshRun(c)
        /\ pc[c] = "poll"
        /\ steps_run[c] = 0
        /\ has_checkpointing
        /\ resumed_from_checkpoint

(***************************************************************************)
(* The checkpoint after a superstep, checked under SpecResume, where       *)
(* checkpointing is enabled and every save succeeds while the storage has  *)
(* room.                                                                   *)
(***************************************************************************)
\* Caller c attempts the checkpoint of a superstep in this step.
SuperstepCheckpointStep(c) == pc[c] = "tail" /\ pc'[c] = "check"

\* The supersteps completed before the run of caller c began: those of the
\* checkpoint it resumed from, none for a fresh run.
CompletedBefore(c) ==
    IF entry[c] = "run_stream_from_checkpoint"
    THEN storage[req[c].id[2]].iteration_count ELSE 0

\* C19: a superstep is counted and its trailing events are yielded, then
\* one checkpoint is taken, then convergence is tested, whether or not
\* messages are left and whether or not the limit is reached; the
\* checkpoint carries as iteration_count and as superstep the supersteps
\* completed so far, those before a resume included, and the type
\* "superstep", one more than the checkpoint before it in the same run.
C19_CheckpointAfterEverySuperstep ==
    [][\A c \in Callers :
          /\ pc[c] = "poll" /\ pc'[c] # "poll"
             => pc'[c] = "tail" /\ iteration' = iteration + 1
          /\ pc[c] = "tail"
             => /\ pc'[c] \in {"tail", "check"}
                /\ iteration' = iteration
                /\ SuperstepCheckpointStep(c) => buf[c] = <<>>
          /\ SuperstepCheckpointStep(c)
             => /\ steps_run[c] >= 1
                /\ iteration = CompletedBefore(c) + steps_run[c]
                /\ UNCHANGED <<messages, events, yielded, task>>
                /\ Len(storage) < MaxCheckpoints
                   => LET last == storage'[Len(storage')]
                      IN  /\ storage' = Append(storage, last)
                          /\ last.iteration_count = iteration
                          /\ last.metadata["superstep"] = iteration
                          /\ last.metadata["checkpoint_type"] = "superstep"
                          /\ last.messages = EncodeMessages(messages)
                          /\ steps_run[c] >= 2
                             => last.iteration_count
                                  = storage[Len(storage)].iteration_count + 1
          /\ pc[c] = "check"
             => /\ pc'[c] \in {"check", "poll", "exit"}
                /\ storage' = storage]_vars

\* A run has used up max_iterations with messages left, and the checkpoint
\* of its last superstep is the newest in the storage.
C19_Witness ==
    \E c \in Callers :
        /\ pc[c] = "exit"
        /\ res[c] = "not_converged"
        /\ steps_run[c] = max_iterations
        /\ storage # <<>>
        /\ storage[Len(storage)].iteration_count = max_iterations
        /\ storage[Len(storage)].metadata["checkpoint_type"] = "superstep"
        /\ storage[Len(storage)].messages # EncodeMessages(NoMessages)

(***************************************************************************)
(* Failing checkpoints, checked under SpecCheckpoint.  The uninterrupted   *)
(* run above is the run in which no checkpoint is involved; the runs of    *)
(* SpecResume, whose checkpoints all succeed, follow it.                   *)
(***************************************************************************)
\* The fresh run of caller c is, superstep by superstep, the uninterrupted
\* run: the same messages after each superstep, the same number of
\* supersteps, the same events in the same order and the same outcome.
SameRun(c) ==
    LET total == Len(Uninterrupted)
    IN  /\ steps_run[c] <= total
        /\ pc[c] \in {"tail", "check"}
           => /\ iteration = steps_run[c]
              /\ messages = Uninterrupted[iteration].messages
              /\ exec_state = Uninterrupted[iteration].exec_state
        /\ pc[c] = "exit" /\ res[c] # "workflow_already_running"
           => /\ steps_run[c] = total
              /\ res[c] = IF Uninterrupted[total].messages = NoMessages
                          THEN "converged" ELSE "not_converged"
              /\ messages = Uninterrupted[total].messages
              /\ yielded[c] = AfterInitialExecution.events \o EventsAfter(0)

\* C20: a checkpoint attempt, failed or not, moves the run on to the next
\* statement and changes neither the messages, the events, the counter nor
\* what was yielded; a fresh run whose checkpoints may fail executes the
\* supersteps, delivers the messages, yields the events and ends with the
\* outcome of the run without failures.
C20_CheckpointFailureSwallowed ==
    /\ [](\A c \in Callers : entry[c] = "run" => SameRun(c))
    /\ [][\A c \in Callers :
             InitialCheckpointStep(c) \/ SuperstepCheckpointStep(c)
             => /\ res'[c] = res[c]
                /\ running' = running
                /\ UNCHANGED <<messages, events, pending_requests, iteration,
                               exec_state, yielded, buf, task, steps_run>>]_vars

\* A fresh run with checkpointing has converged after two or more supersteps
\* and an output, and not one of its checkpoints was stored.
C20_Witness ==
    \E c \in Callers :
        /\ entry[c] = "run"
        /\ pc[c] = "exit"
        /\ res[c] = "converged"
        /\ has_checkpointing
        /\ steps_run[c] >= 2
        /\ yielded[c] # <<>>
        /\ storage = <<>>

(***************************************************************************)
(* The executor states in a checkpoint, checked under SpecCheckpoint.      *)
(***************************************************************************)
\* Caller c attempts a checkpoint in this step.
CheckpointStep(c) == InitialCheckpointStep(c) \/ SuperstepCheckpointStep(c)

\* The executor states that the shared state holds under the reserved key.
RecordedStates(shared) ==
    IF EXECUTOR_STATE_KEY \in DOMAIN shared /\ shared[EXECUTOR_STATE_KEY].t = "dict"
    THEN shared[EXECUTOR_STATE_KEY].m ELSE NoItems

\* C21: the snapshot runs before every checkpoint, so that the checkpoint
\* holds, under the reserved key, for each executor with a hook either the
\* state the hook returns now or, when the hook throws, nothing; the
\* checkpoint is created from that shared state and the run goes on.
C21_ThrowingHookStateOmitted ==
    [][\A c \in Callers :
          CheckpointStep(c)
          => /\ \A e \in HookExecutors :
                   e \in DOMAIN RecordedStates(shared_state')
                   => RecordedStates(shared_state')[e] = snapshot_state(e)
             /\ Len(storage') > Len(storage)
                => storage'[Len(storage')].shared_state
                      = encode_checkpoint_value(DictV(shared_state'))
             /\ res'[c] = res[c]]_vars

(***************************************************************************)
(* SharedState under concurrent handlers.  Each operation of SharedState   *)
(* (has, get, set) is one critical section.  StateTrackingExecutor's       *)
(* handler reads the list under "processed_messages" (an empty list when   *)
(* the key is missing), appends its record and writes the list back; a     *)
(* handler may be suspended at each of its awaits.  SpecShared delivers    *)
(* the messages of three sources to it in one superstep, superstep after   *)
(* superstep.                                                              *)
(***************************************************************************)
TrackedKey == "processed_messages"

\* SharedState.get, with the handler's fallback for a missing key.
get_shared_state(shared, key) ==
    IF key \in DOMAIN shared THEN shared[key] ELSE ListV(<<>>)

\* SharedState.set
set_shared_state(shared, key, value) == Put(shared, key, value)

message_record(i) == StrV(i)

\* Lines 176-178: the superstep starts one delivery for each source.
Gather ==
    /\ \A i \in Concurrent : invocation[i].at \in {"idle", "done"}
    /\ Len(get_shared_state(shared_state, TrackedKey).m) < MaxIterations
    /\ invocation' = [i \in Concurrent |-> [at |-> "get", existing_messages |-> NoneV]]
    /\ UNCHANGED <<cfg, agent_pending, buffer, request_seq, runnerVars, is_running, ctxVars, storeVars,
                   stateVars,
                   callerVars, orphans, calls>>

\* handle_message up to its first await: get_shared_state.
HandlerGet(i) ==
    /\ invocation[i].at = "get"
    /\ invocation' = [invocation EXCEPT ![i] =
                         [at |-> "set",
                          existing_messages |-> get_shared_state(shared_state, TrackedKey)]]
    /\ UNCHANGED <<cfg, agent_pending, buffer, request_seq, runnerVars, is_running, ctxVars, storeVars,
                   stateVars,
                   callerVars, orphans, calls>>

\* handle_message from the append to its second await: set_shared_state.
HandlerSet(i) ==
    /\ invocation[i].at = "set"
    /\ shared_state' =
          set_shared_state(shared_state, TrackedKey,
                           ListV(Append(invocation[i].existing_messages.m,
                                        message_record(i))))
    /\ invocation' = [invocation EXCEPT ![i] = [at |-> "done", existing_messages |-> NoneV]]
    /\ UNCHANGED <<cfg, agent_pending, buffer, request_seq, runnerVars, is_running, ctxVars, storeVars,
                   exec_state,
                   callerVars, orphans, calls>>

InitShared ==
    Constructed([limit : {MaxIterations}, checkpointing : {FALSE},
                 graph_signature_hash : {"g1"}, graph : {"fan_out_back"}])

NextShared ==
    \/ Gather
    \/ \E i \in Concurrent : HandlerGet(i) \/ HandlerSet(i)

SpecShared == InitShared /\ [][NextShared]_vars

\* The number of times record r occurs in list l.
RECURSIVE Occurrences(_, _)
Occurrences(l, r) ==
    IF l = <<>> THEN 0
    ELSE (IF Head(l) = r THEN 1 ELSE 0) + Occurrences(Tail(l), r)

RunStep(c) == pc[c] = "idle" /\ pc'[c] = "start" /\ FreshRun(c)'

Answerable == {id \in DOMAIN pending_requests : pending_requests[id].e \in RequestApprovers}
Responses == UNION {[ids -> {ApprovalMessage(TRUE), ApprovalMessage(FALSE)}] :
                    ids \in SUBSET Answerable}

\* A delivery that leaves the answered request open.
handle_response_kept(id, response, ctx) ==
    LET event == ctx.pending_requests[id]
    IN  mock_handler_b(event.e, event.data, response, ctx)

\* One response: the request is closed and the response handler of the
\* executor that asked gets the original request and the response.
handle_response(id, response, ctx) ==
    LET event == ctx.pending_requests[id]
        open == [i \in DOMAIN ctx.pending_requests \ {id} |-> ctx.pending_requests[i]]
    IN  mock_handler_b(event.e, event.data, response,
                       [ctx EXCEPT !.pending_requests = open])

RECURSIVE handle_responses(_, _)
handle_responses(responses, ctx) ==
    IF DOMAIN responses = {} THEN ctx
    ELSE LET id == CHOOSE i \in DOMAIN responses : \A j \in DOMAIN responses : i[2] <= j[2]
             rest == [i \in DOMAIN responses \ {id} |-> responses[i]]
         IN  handle_responses(rest, handle_response(id, responses[id], ctx))

\* Workflow.send_responses with a mapping request id -> response: the
\* responses are handed over on the context as it is, then the run goes on.
SendResponsesWith(c, responses) ==
    /\ MayCallWorkflow(c)
    /\ calls' = calls + 1
    /\ IF is_running THEN Rejected(c, "send_responses")
       ELSE /\ Accepted(c, "send_responses")
            /\ LET r == handle_responses(responses, Context)
               IN  /\ messages' = r.messages
                   /\ events' = r.events
                   /\ pending_requests' = r.pending_requests
                   /\ shared_state' = r.shared_state
            /\ pc' = [pc EXCEPT ![c] = "start"]
            /\ UNCHANGED <<cfg, agent_pending, buffer, invocation, request_seq, runnerVars, storeVars,
                           exec_state, buf, task, iter_at_entry, req, orphans>>

\* A checkpoint written by hand while a request of executor_b was open: no
\* message is queued, the value waiting for the approval is in the shared
\* state.
PausedCheckpoint == SavedCheckpoint("g1", ("executor_b" :> IntV(1)), NoMessages, 0)

PausedIds == {"ctx", "ext"} \X (1..2)

InitApproval ==
    Constructed([limit : Limits, checkpointing : BOOLEAN, graph_signature_hash : {"g1"},
                 graph : {"approval"}])

RunStepsApproval(c) ==
    \/ Enter(c)
    \/ Yield(c, FALSE)
    \/ InitialCheckpoint(c, FALSE)
    \/ LoopHead(c)
    \/ IterationStep(c, FALSE)
    \/ PollYield(c, FALSE)
    \/ AwaitTask(c)
    \/ SuperstepCheckpoint(c, FALSE)
    \/ ConvergenceCheck(c)

NextApproval ==
    \/ \E ext \in BOOLEAN : SaveCheckpoint(ext, PausedCheckpoint)
    \/ \E c \in Callers :
          \/ Run(c, "run")
          \/ \E id \in PausedIds, ext \in BOOLEAN :
                RunStreamFromCheckpoint(c, id, ext, NoFault)
          \/ \E responses \in Responses : SendResponsesWith(c, responses)
          \/ RunStepsApproval(c)
          \/ Return(c)

\* The consumer goes on iterating the run it started and the event loop goes
\* on scheduling the iteration task.
RunGoesOn == \A c \in Callers : WF_vars(RunStepsApproval(c))

SpecApproval == InitApproval /\ [][NextApproval]_vars /\ RunGoesOn

RequestsOf(seq) == {seq[i] : i \in {j \in DOMAIN seq : seq[j].k = "request_info"}}
OutputsOf(seq) == {i \in DOMAIN seq : seq[i].k = "output"}

\* A handler requested external input in this step.
RequestInfoStep == request_seq' # request_seq

\* The caller's send_responses was accepted in this step.
SendResponsesStep(c) ==
    pc[c] = "idle" /\ pc'[c] = "start" /\ entry'[c] = "send_responses"

Answered == DOMAIN pending_requests \ DOMAIN pending_requests'

\* What the response handlers leave behind them: each invocation yields the
\* value kept in the shared state, or has the executor that asked send it on.
Responded(e) ==
    LET data == shared_state[e].n
        yields == SubSeq(events', Len(events) + 1, Len(events'))
        sends == SubSeq(messages'[e], Len(messages[e]) + 1, Len(messages'[e]))
    IN  /\ SubSeq(events', 1, Len(events)) = events
        /\ SubSeq(messages'[e], 1, Len(messages[e])) = messages[e]
        /\ \A i \in DOMAIN yields : yields[i] = Output(e, data)
        /\ \A i \in DOMAIN sends : sends[i] = Message(NumberMessage(data), e)
        /\ Len(yields) + Len(sends) = Cardinality(Answered)
        /\ \A other \in Executors \ {e} : messages'[other] = messages[other]

\* C24: a handler that requests external input emits one RequestInfoEvent
\* whose request id no earlier request had, and the fresh run that yields it
\* ends converged, without output and with the request open.  A send_responses
\* that answers an open request invokes the response handler of the executor
\* that asked exactly once, with the request as it was made and with the
\* shared state written before the pause still there, and the run it starts
\* goes on to convergence.
C24_PauseAndResume ==
    /\ [][RequestInfoStep =>
            LET id == RequestId(request_seq')
                e == "executor_b"
            IN  /\ \A open \in DOMAIN pending_requests : open[2] < id[2]
                /\ DOMAIN pending_requests' = DOMAIN pending_requests \cup {id}
                /\ e \in DOMAIN shared_state'
                /\ pending_requests'[id] =
                       RequestInfoEvent(id, e, MockRequest(shared_state'[e].n))
                /\ events' = events \o <<pending_requests'[id]>>]_vars
    /\ [](\A c \in Callers :
            pc[c] = "exit" /\ FreshRun(c) /\ RequestsOf(yielded[c]) # {}
            => /\ res[c] = "converged"
               /\ OutputsOf(yielded[c]) = {}
               /\ Cardinality(RequestsOf(yielded[c])) = 1
               /\ \A event \in RequestsOf(yielded[c]) :
                     /\ event.request_id \in DOMAIN pending_requests
                     /\ pending_requests[event.request_id] = event
                     /\ event.data = MockRequest(shared_state[event.e].n))
    /\ [][\A c \in Callers :
            SendResponsesStep(c)
            => /\ shared_state' = shared_state
               /\ \A id \in Answered : pending_requests[id].e = "executor_b"
               /\ Responded("executor_b")
               /\ \A id \in DOMAIN pending_requests' :
                     pending_requests'[id] = pending_requests[id]]_vars
    /\ \A c \in Callers :
          /\ (InBody(c) /\ RequestsOf(buf[c] \o yielded[c]) # {})
                ~> (pc[c] = "exit" /\ RequestsOf(yielded[c]) # {})
          /\ (pc[c] = "start" /\ entry[c] = "send_responses")
                ~> (pc[c] = "exit" /\ res[c] = "converged")

\* An approved request: the run started by send_responses has ended converged
\* with the value written before the pause as its only output.
C24_Witness ==
    \E c \in Callers :
        /\ pc[c] = "exit" /\ entry[c] = "send_responses" /\ res[c] = "converged"
        /\ yielded[c] = <<Output("executor_b", 1)>>
        /\ pending_requests = NoItems
        /\ shared_state["executor_b"] = IntV(1)

\* The caller's run_stream_from_checkpoint restored its checkpoint in this
\* step.
ResumedStep(c) ==
    pc[c] = "idle" /\ pc'[c] = "start" /\ entry'[c] = "run_stream_from_checkpoint"

Restoring(c) == Loaded(req[c].id, req[c].ext).pending_request_info_events

IdsOf(seq) == {event.request_id : event \in RequestsOf(seq)}

\* C25: when a checkpoint is restored, the requests stored in it are the open
\* requests and each of them is queued as a RequestInfoEvent with its request
\* id; the resumed run yields every one of them; a send_responses that answers
\* one of them afterwards hands it to the response handler of the executor
\* that asked and closes it.
C25_OpenRequestsSurviveCheckpoint ==
    /\ [][\A c \in Callers :
            ResumedStep(c)
            => /\ pending_requests' = Restoring(c)'
               /\ SubSeq(events', 1, Len(events)) = events
               /\ LET emitted == SubSeq(events', Len(events) + 1, Len(events'))
                  IN  /\ IdsOf(emitted) = DOMAIN Restoring(c)'
                      /\ Len(emitted) = Cardinality(DOMAIN Restoring(c)')
                      /\ \A i \in DOMAIN emitted :
                            emitted[i] = Restoring(c)'[emitted[i].request_id]]_vars
    /\ [](\A c \in Callers :
            pc[c] = "exit" /\ entry[c] = "run_stream_from_checkpoint"
               /\ res[c] \in {"converged", "not_converged"}
            => DOMAIN Restoring(c) \subseteq IdsOf(yielded[c]))
    /\ \A c \in Callers :
          (pc[c] = "start" /\ entry[c] = "run_stream_from_checkpoint")
             ~> (/\ pc[c] = "exit" /\ entry[c] = "run_stream_from_checkpoint"
                 /\ res[c] \in {"converged", "not_converged"}
                 /\ DOMAIN Restoring(c) \subseteq IdsOf(yielded[c]))
    /\ [][\A c \in Callers :
            SendResponsesStep(c)
            => /\ Answered \subseteq Answerable
               /\ Responded("executor_b")
               /\ \A id \in DOMAIN pending_requests :
                     id \in DOMAIN pending_requests'
                     => pending_requests'[id] = pending_requests[id]]_vars

\* The request of a checkpoint written by hand was restored, yielded by the
\* resumed run and then approved: the run started by send_responses has
\* yielded the value of the checkpoint's shared state and no request is open.
C25_Witness ==
    \E c \in Callers :
        /\ pc[c] = "exit" /\ entry[c] = "send_responses" /\ res[c] = "converged"
        /\ request_seq = 0
        /\ resumed_from_checkpoint = FALSE
        /\ workflow_id = "wf_saved"
        /\ yielded[c] = <<Output("executor_b", 1)>>
        /\ pending_requests = NoItems


(***************************************************************************)
(* The scenarios of the workflow tests, run without interference: the      *)
(* increment cycle with a limit from 1 to beyond max_iterations, and the   *)
(* fan-out from executor_a to executor_b (limit 1) and executor_c          *)
(* (limit 2), neither of which has an outgoing edge.                       *)
(***************************************************************************)
ScenarioLimits == 1..(MaxIterations + 1)

InitScenario ==
    Constructed([limit : ScenarioLimits, checkpointing : BOOLEAN,
                 graph_signature_hash : {"g1"}, graph : {"cycle", "fan_out_limits"}])

NextScenario ==
    \E c \in Callers :
        \/ \E kind \in {"run", "run_stream"} : Run(c, kind)
        \/ Enter(c)
        \/ Yield(c, FALSE)
        \/ InitialCheckpoint(c, FALSE)
        \/ LoopHead(c)
        \/ IterationStep(c, FALSE)
        \/ PollYield(c, FALSE)
        \/ AwaitTask(c)
        \/ SuperstepCheckpoint(c, FALSE)
        \/ ConvergenceCheck(c)
        \/ Return(c)

SpecScenario == InitScenario /\ [][NextScenario]_vars

OutputValues(seq) == [i \in 1..Cardinality(OutputsOf(seq)) |->
                         seq[CHOOSE j \in OutputsOf(seq) :
                                Cardinality({k \in OutputsOf(seq) : k < j}) = i - 1].v]

\* C26: a fresh run of the increment cycle with the limit L, started with 0,
\* ends converged after exactly L supersteps with the single output L when
\* L <= max_iterations, and ends with the convergence error and without an
\* output when L > max_iterations.
C26_IncrementCycle ==
    \A c \in Callers :
        pc[c] = "exit" /\ FreshRun(c) /\ cfg.graph = "cycle"
        => IF cfg.limit <= max_iterations
           THEN /\ res[c] = "converged"
                /\ steps_run[c] = cfg.limit
                /\ OutputValues(yielded[c]) = <<cfg.limit>>
           ELSE /\ res[c] = "not_converged"
                /\ steps_run[c] = max_iterations
                /\ OutputValues(yielded[c]) = <<>>

\* The limit is max_iterations: the run has used its last superstep and has
\* converged with the output max_iterations.
C26_Witness ==
    \E c \in Callers :
        /\ pc[c] = "exit" /\ FreshRun(c) /\ cfg.graph = "cycle"
        /\ cfg.limit = max_iterations /\ res[c] = "converged"
        /\ steps_run[c] = max_iterations
        /\ OutputValues(yielded[c]) = <<max_iterations>>

\* The limit is beyond max_iterations: the run has failed.
CycleNotConverged ==
    \E c \in Callers :
        /\ pc[c] = "exit" /\ FreshRun(c) /\ cfg.graph = "cycle"
        /\ cfg.limit > max_iterations /\ res[c] = "not_converged"

\* The iteration task of caller c drops the messages of src in this step.
DropStep(c, src) ==
    /\ task[c].st = "running" /\ task[c].pend[src] # <<>>
    /\ edge_runner_map(src) = {}
    /\ task'[c] # task[c]
    /\ task'[c].pend[src] = <<>>

\* C27: the messages of an executor without outgoing edge are dropped by the
\* superstep that finds them: nothing is delivered, queued, emitted or
\* raised, and the task goes on.  The run of the fan-out scenario converges
\* in its second superstep, which drops what executor_c sent, with the one
\* output 1 of executor_b.
C27_NoOutgoingEdgeDropped ==
    /\ [][\A c \in Callers, src \in Executors :
            DropStep(c, src)
            => /\ task'[c] = [task[c] EXCEPT !.pend[src] = <<>>]
               /\ UNCHANGED <<ctxVars, stateVars, buffer, orphans, res, pc>>]_vars
    /\ [](\A c \in Callers :
            pc[c] = "exit" /\ FreshRun(c) /\ cfg.graph = "fan_out_limits"
            => /\ res[c] = "converged"
               /\ steps_run[c] = 2
               /\ messages = NoMessages
               /\ \E i \in DOMAIN yielded[c] :
                     /\ yielded[c][i] = Output("executor_b", 1)
                     /\ OutputsOf(yielded[c]) = {i})

\* The second superstep of the fan-out scenario is dropping the message that
\* executor_c sent in the first one, after executor_b's output.
C27_Witness ==
    \E c \in Callers :
        /\ cfg.graph = "fan_out_limits" /\ FreshRun(c) /\ steps_run[c] = 1
        /\ task[c].st = "running"
        /\ task[c].pend["executor_c"] = <<Message(NumberMessage(2), "executor_c")>>
        /\ Output("executor_b", 1) \in {(buf[c] \o yielded[c])[i] :
                                           i \in DOMAIN (buf[c] \o yielded[c])}


(***************************************************************************)
(* One Runner used again and again: fresh runs, runs resumed from a        *)
(* checkpoint, send_responses, the generator taken directly, and           *)
(* reset_iteration_count between two invocations.                          *)
(***************************************************************************)
\* Runner.reset_iteration_count, lines 68-70, called while nobody is inside
\* an invocation.
ResetIterationCount ==
    /\ \A c \in Callers : pc[c] = "idle"
    /\ iteration # 0
    /\ iteration' = 0
    /\ UNCHANGED <<cfg, agent_pending, buffer, invocation, request_seq, running, resumed_from_checkpoint,
                   workflow_id, is_running, ctxVars, storeVars, stateVars, callerVars,
                   orphans, calls>>

InitRerun ==
    Constructed([limit : Limits, checkpointing : BOOLEAN, graph_signature_hash : {"g1"},
                 graph : {"cycle"}])

NextRerun ==
    \/ \E ext \in BOOLEAN : SaveCheckpoint(ext, EarlierCheckpoint)
    \/ ResetIterationCount
    \/ \E c \in Callers :
          \/ Run(c, "run")
          \/ \E id \in RestoreIds, ext \in BOOLEAN :
                RunStreamFromCheckpoint(c, id, ext, NoFault)
          \/ SendResponses(c)
          \/ RunnerCall(c)
          \/ Enter(c)
          \/ Yield(c, FALSE)
          \/ InitialCheckpoint(c, FALSE)
          \/ LoopHead(c)
          \/ IterationStep(c, FALSE)
          \/ PollYield(c, FALSE)
          \/ AwaitTask(c)
          \/ SuperstepCheckpoint(c, FALSE)
          \/ ConvergenceCheck(c)
          \/ Return(c)

SpecRerun == InitRerun /\ [][NextRerun]_vars

\* The invocation of caller c completes successfully in this step.
SuccessStep(c) == InBody(c) /\ pc'[c] = "exit" /\ res'[c] = "converged"

\* Nobody is inside the generator.
Quiet == \A c \in Callers : ~InBody(c)

\* The iteration task of a superstep is created for caller c in this step.
SuperstepStart(c) == pc[c] \in {"pre", "loop", "check", "tail"} /\ pc'[c] = "poll"

\* C28: every successful completion, of a fresh run and of a resumed one,
\* leaves the iteration counter at zero and the resumed flag cleared; both
\* stay so until the next invocation unless a checkpoint is restored; and an
\* invocation that finds them so creates the initial checkpoint when messages
\* are pending and checkpointing is enabled, starts with superstep 1 and
\* fails to converge only after max_iterations supersteps.
C28_CountersResetOnSuccess ==
    /\ [][\A c \in Callers :
            SuccessStep(c) => iteration' = 0 /\ ~resumed_from_checkpoint']_vars
    /\ [][/\ iteration = 0 /\ ~resumed_from_checkpoint /\ Quiet
          /\ \A c \in Callers : ~ResumedStep(c)
          => iteration' = 0 /\ ~resumed_from_checkpoint']_vars
    /\ [][\A c \in Callers :
            /\ LoopEntry(c) /\ iteration = 0 /\ ~resumed_from_checkpoint
               => /\ InitialCheckpointStep(c) <=> has_messages /\ has_checkpointing
                  /\ InitialCheckpointStep(c) /\ Len(storage) < MaxCheckpoints
                     => StoresInitial
            /\ SuperstepStart(c) => iteration = iter_at_entry[c] + steps_run[c]]_vars
    /\ [](\A c \in Callers :
            pc[c] = "exit" /\ res[c] = "not_converged" /\ iter_at_entry[c] = 0
            => steps_run[c] = max_iterations)

\* A run resumed from a checkpoint has completed, and the fresh run after it
\* is at the head of its loop with its initial checkpoint stored.
C28_Witness ==
    \E c \in Callers :
        /\ pc[c] = "loop" /\ entry[c] = "run" /\ steps_run[c] = 0
        /\ workflow_id = "wf_saved" /\ calls = 2
        /\ iteration = 0 /\ ~resumed_from_checkpoint
        /\ storage # <<>>
        /\ storage[Len(storage)].metadata["checkpoint_type"] = "initial"

\* The invocation of caller c fails with the convergence error in this step.
ExhaustionStep(c) == InBody(c) /\ pc'[c] = "exit" /\ res'[c] = "not_converged"

\* reset_iteration_count is called in this step.
ResetStep == Quiet /\ calls' = calls /\ iteration # 0 /\ iteration' = 0

\* Caller c is inside an invocation that found the counter exhausted.
Exhausted(c) == InBody(c) /\ iter_at_entry[c] >= max_iterations

Ended(c) == pc[c] = "exit" /\ res[c] \in {"converged", "not_converged"}

\* C29: the convergence error leaves the counter at max_iterations with the
\* messages pending; an invocation that finds the counter there starts no
\* superstep and delivers nothing, and fails again when messages are
\* pending; reset_iteration_count sets the counter to zero and touches
\* nothing else, and an invocation that finds the counter below
\* max_iterations executes at least one superstep.
C29_NotRestartableWithoutReset ==
    /\ [][\A c \in Callers :
            ExhaustionStep(c)
            => /\ iteration' = max_iterations /\ iteration' = iteration
               /\ has_messages'
               /\ ~running']_vars
    /\ [][\A c \in Callers :
            Exhausted(c)
            => /\ ~SuperstepStart(c)
               /\ messages' = messages
               /\ steps_run'[c] = 0
               /\ pc'[c] = "exit" /\ has_messages => res'[c] = "not_converged"]_vars
    /\ [][ResetStep
          => UNCHANGED <<running, resumed_from_checkpoint, workflow_id, is_running,
                         ctxVars, storeVars, stateVars, callerVars>>]_vars
    /\ [](\A c \in Callers :
            Ended(c) /\ iter_at_entry[c] < max_iterations => steps_run[c] >= 1)

\* The run failed to converge, the counter was reset, and the generator taken
\* again has delivered the pending message in one superstep and converged.
C29_Witness ==
    \E c \in Callers :
        /\ cfg.limit = max_iterations + 1
        /\ pc[c] = "exit" /\ entry[c] = "runner" /\ res[c] = "converged"
        /\ iter_at_entry[c] = 0 /\ steps_run[c] = 1
        /\ yielded[c] = <<Output("executor_a", max_iterations + 1)>>

\* The run failed to converge, and the generator taken again without a reset
\* has failed again without a superstep.
FailedAgain ==
    \E c \in Callers :
        /\ pc[c] = "exit" /\ entry[c] \in {"runner", "send_responses"}
        /\ res[c] = "not_converged"
        /\ iter_at_entry[c] = max_iterations /\ steps_run[c] = 0
        /\ has_messages

\* The payload carries a checkpoint-encoding marker.
CarriesMarker(data) ==
    data.t = "dict" /\ (MODEL_MARKER \in DOMAIN data.m \/ DATACLASS_MARKER \in DOMAIN data.m)

\* An encoded placeholder is somewhere inside the value.
RECURSIVE HoldsPlaceholder(_)
HoldsPlaceholder(v) ==
    \/ CarriesMarker(v)
    \/ v.t \in {"dict", "list", "dataclass"}
       /\ \E k \in DOMAIN v.m : HoldsPlaceholder(v.m[k])

\* The iteration task of caller c hands the head message of src to the edge
\* runners of src in this step.
DeliveryStep(c, src) ==
    /\ task[c].st = "running" /\ task[c].pend[src] # <<>>
    /\ edge_runner_map(src) # {}
    /\ task'[c].st = "running"
    /\ task'[c].pend = [task[c].pend EXCEPT ![src] = Tail(@)]

InitLate ==
    Constructed([limit : Limits, checkpointing : {FALSE},
                 graph_signature_hash : {"g1"}, graph : {"fan_out_back"}])

NextLate ==
    \/ \E c \in Callers :
          \/ Run(c, "run_stream")
          \/ Enter(c)
          \/ \E close \in BOOLEAN : Yield(c, close)
          \/ LoopHead(c)
          \/ IterationStep(c, TRUE)
          \/ \E close \in BOOLEAN : PollYield(c, close)
          \/ AwaitTask(c)
          \/ Raise(c)
          \/ ConvergenceCheck(c)
          \/ Return(c)
    \/ OrphanStep(TRUE)

SpecLate == InitLate /\ [][NextLate]_vars

\* The task has messages of its superstep still to deliver.
Undelivered(t) == Live(t) /\ (t.st = "created" \/ t.pend # NoMessages)

\* Some delivery of a superstep is still to be executed.
DeliveryInFlight ==
    \/ \E i \in DOMAIN orphans : Undelivered(orphans[i])
    \/ \E c \in Callers : Undelivered(task[c])

\* C31: whenever the running flag of the Runner is false, no superstep
\* delivery started by run_until_convergence is still executing; neither a
\* failed sibling delivery nor a closed event stream leaves one behind.
C31_NoDeliveryOutlivesRun == running = FALSE => ~DeliveryInFlight

\* C31, as steps: while the running flag is false no delivery of an ended
\* run changes the context, the shared state or the executors.
C31_NoLateDelivery ==
    [][running = FALSE /\ orphans # <<>> /\ orphans' # orphans
         => UNCHANGED <<ctxVars, stateVars, buffer>>]_vars

\* The two ways in which a delivery is left behind.
LeftByFailure ==
    \E c \in Callers : res[c] = "delivery_failed" /\ ~running /\ DeliveryInFlight
LeftByClose ==
    \E c \in Callers :
        /\ res[c] = "closed" /\ ~running /\ DeliveryInFlight
        /\ \A d \in Callers : \A i \in DOMAIN yielded[d] : yielded[d][i].k # "failed"
        /\ \A i \in DOMAIN events : events[i].k # "failed"


(***************************************************************************)
(* What a restore that does not succeed leaves behind, checked under       *)
(* SpecRestore.                                                            *)
(***************************************************************************)
\* C32: restore_from_checkpoint is all-or-nothing: whenever it returns False
\* or raises, the workflow id, the shared state, the executors' states, the
\* pending queues, the iteration counter and the resumed flag are as they
\* were before the call.
C32_RestoreAllOrNothing ==
    [][\A c \in Callers :
          RestoreStep(c) /\ res'[c] # "restored"
             => UNCHANGED <<workflow_id, shared_state, exec_state, messages,
                            pending_requests, iteration, resumed_from_checkpoint>>]_vars

\* What does hold: a restore that does not succeed leaves the pending
\* queues, the iteration counter and the resumed flag alone, and a restore
\* that fails before the topology check has passed leaves everything alone.
RestoreFailureKeepsQueues ==
    [][\A c \in Callers :
          RestoreStep(c) /\ res'[c] # "restored"
             => /\ UNCHANGED <<messages, pending_requests, iteration,
                               resumed_from_checkpoint>>
                /\ (Unobtainable(req'[c]) \/ res'[c] = "restore_graph_changed"
                       => UNCHANGED <<workflow_id, shared_state, exec_state>>)]_vars


(***************************************************************************)
(* The way of an event from the queue of the context to the caller,        *)
(* checked under SpecCheckpoint (events queued before the loop by a        *)
(* restore, events queued during the supersteps, a checkpoint after every  *)
(* superstep).  SpecStream adds events queued while other buckets of the   *)
(* superstep are still undelivered.                                        *)
(***************************************************************************)
\* What caller c has been handed, followed by what it has drained and by
\* what is queued: every event that was emitted, in the order of emission.
Stream(c) == yielded[c] \o buf[c] \o events

\* Nothing is drained or queued for caller c.
AllYielded(c) == buf[c] = <<>> /\ events = <<>>

\* C33: every event queued before or during a superstep is yielded to the
\* caller exactly once and in queue order, whether the polling loop or a
\* drain takes it from the queue; all of them are yielded before the
\* checkpoint of that superstep is created, before the next superstep
\* starts and before the run ends, and the events queued before the loop
\* are yielded before the first superstep starts.
C33_EventsYieldedOnceInOrder ==
    [][\A c \in Callers :
          /\ InBody(c) /\ (InBody(c))' 
             => /\ IsPrefix(Stream(c), (Stream(c))')
                /\ yielded'[c] # yielded[c]
                   => yielded'[c] = Append(yielded[c], Head(buf[c] \o events))
          /\ SuperstepCheckpointStep(c) \/ SuperstepStart(c) \/ LoopEntry(c)
             => AllYielded(c)
          /\ InBody(c) /\ pc'[c] = "exit" /\ res'[c] # "closed"
             => AllYielded(c) /\ events' = <<>> /\ yielded'[c] = yielded[c]]_vars

\* A run with checkpointing is at the checkpoint of a superstep, having
\* yielded one event that was queued before the loop and one that was
\* queued during the superstep, and nothing is left in the queue.
C33_Witness ==
    \E c \in Callers :
        /\ pc[c] = "check" /\ has_checkpointing /\ steps_run[c] >= 1
        /\ Len(yielded[c]) >= 2
        /\ yielded[c][1].k = "request_info"
        /\ yielded[c][2].k = "output"
        /\ AllYielded(c)
        /\ storage # <<>>
        /\ storage[Len(storage)].metadata["checkpoint_type"] = "superstep"


(***************************************************************************)
(* The supersteps left to a resumed run, checked under SpecResume: a run   *)
(* with checkpointing, then a run resumed from any of its checkpoints,     *)
(* among them the checkpoint of the last superstep the limit allows.       *)
(***************************************************************************)
\* Caller c resumed from a checkpoint and has entered run_until_convergence.
ResumedRun(c) ==
    /\ entry[c] = "run_stream_from_checkpoint"
    /\ InBody(c) \/ res[c] \in {"converged", "not_converged", "delivery_failed", "closed"}

\* The checkpoint caller c resumed from.
ResumedFrom(c) == TheCheckpoint(req[c])

\* The supersteps a run may execute that starts with k supersteps counted.
Budget(k) == IF k < max_iterations THEN max_iterations - k ELSE 0

\* C34: the max_iterations budget spans a resume: a run resumed from a
\* checkpoint with iteration_count k enters the loop with the counter at k and
\* executes at most max_iterations - k supersteps; with k >= max_iterations it
\* starts no superstep and delivers nothing, and it ends with the
\* convergence error when the checkpoint holds pending messages and
\* successfully when it holds none.
C34_BudgetSpansResume ==
    /\ [](\A c \in Callers :
            ResumedRun(c)
            => LET k == ResumedFrom(c).iteration_count
               IN  /\ iter_at_entry[c] = k
                   /\ steps_run[c] <= Budget(k)
                   /\ k >= max_iterations
                      => /\ steps_run[c] = 0
                         /\ task[c] = NoTask
                         /\ res[c] = "not_converged"
                            => ResumedFrom(c).messages # NoMessages
                         /\ res[c] = "converged"
                            => ResumedFrom(c).messages = NoMessages
                         /\ res[c] \in {"not_converged", "converged", "none"})
    /\ [][\A c \in Callers :
             ResumedRun(c) /\ ResumedFrom(c).iteration_count >= max_iterations
             => /\ ~SuperstepStart(c)
                /\ InBody(c) => UNCHANGED <<messages, stateVars, buffer>>]_vars

\* A run resumed from the checkpoint of superstep max_iterations that holds
\* a pending message has ended with the convergence error, the message
\* still queued.
C34_Witness ==
    \E c \in Callers :
        /\ ResumedRun(c) /\ res[c] = "not_converged"
        /\ ResumedFrom(c).iteration_count = max_iterations
        /\ steps_run[c] = 0
        /\ has_messages

\* A run resumed from the checkpoint of superstep max_iterations that holds
\* no message has completed without a superstep.
ResumedWithNothingLeft ==
    \E c \in Callers :
        /\ ResumedRun(c) /\ res[c] = "converged"
        /\ ResumedFrom(c).iteration_count = max_iterations
        /\ steps_run[c] = 0

\* A run resumed from an earlier checkpoint has used up what was left of
\* the budget.
ResumedUsesUpBudget ==
    \E c \in Callers :
        /\ ResumedRun(c) /\ res[c] = "not_converged"
        /\ ResumedFrom(c).iteration_count \in 1..(max_iterations - 1)
        /\ steps_run[c] = Budget(ResumedFrom(c).iteration_count)


(***************************************************************************)
(* The order of the deliveries of one superstep, checked under SpecOrder:  *)
(* runs resumed from a checkpoint in which two different messages of       *)
(* executor_a are pending, on the cycle and on the graph with a fan-out    *)
(* and a single edge at executor_a followed by a fan-in.  The delivery of  *)
(* one message through the edge runners of its source (lines 170-174: the  *)
(* gather is awaited before the loop goes on) is one step of the iteration *)
(* task; the runners are served in every order.                            *)
(***************************************************************************)
PendingTwo ==
    [NoMessages EXCEPT !["executor_a"] = <<Message(NumberMessage(1), "executor_a"),
                                           Message(NumberMessage(2), "executor_a")>>]

TwoPendingCheckpoint == SavedCheckpoint("g1", SharedWellFormed, PendingTwo, 1)

InitOrder ==
    Constructed([limit : Limits, checkpointing : {FALSE}, graph_signature_hash : {"g1"},
                 graph : {"cycle", "fan_in_twice"}])

NextOrder ==
    \/ SaveCheckpoint(TRUE, TwoPendingCheckpoint)
    \/ \E c \in Callers :
          \/ RunStreamFromCheckpoint(c, <<"ext", 1>>, TRUE, NoFault)
          \/ Enter(c)
          \/ Yield(c, FALSE)
          \/ LoopHead(c)
          \/ IterationStep(c, FALSE)
          \/ PollYield(c, FALSE)
          \/ AwaitTask(c)
          \/ ConvergenceCheck(c)
          \/ Return(c)

SpecOrder == InitOrder /\ [][NextOrder]_vars

\* C35: within a superstep the messages of one source bucket are delivered
\* one after another in queue order: each delivery takes the oldest message
\* left in the bucket through every edge runner of the source before the
\* next message of the bucket is touched; the buckets of different sources
\* are served in any order relative to each other.
C35_BucketInQueueOrder ==
    [][\A c \in Callers :
          TaskStep(c) /\ task[c].st = "running" /\ task'[c].st = "running"
          => \E src \in Executors :
                /\ task[c].pend[src] # <<>>
                /\ \A e \in Executors \ {src} : task'[c].pend[e] = task[c].pend[e]
                /\ IF edge_runner_map(src) = {}
                   THEN task'[c].pend[src] = <<>> /\ UNCHANGED <<messages, events, buffer>>
                   ELSE /\ task'[c].pend[src] = Tail(task[c].pend[src])
                        /\ \E ctx \in SendAll(edge_runner_map(src),
                                              Message(DeliveredData(c, src), src),
                                              {Context}) :
                              /\ messages' = ctx.messages
                              /\ events' = ctx.events
                              /\ buffer' = ctx.buffer]_vars

\* The first of the two pending messages of executor_a has been delivered
\* and answered by executor_b, the second is still in the bucket.
C35_Witness ==
    \E c \in Callers :
        /\ cfg.graph = "cycle"
        /\ task[c].st = "running"
        /\ Len(task[c].pend["executor_a"]) = 1
        /\ DeliveredData(c, "executor_a") = NumberMessage(2)
        /\ messages["executor_b"] = <<Message(NumberMessage(2), "executor_b")>>

\* In a superstep with several messages in the buckets of executor_b and
\* executor_c, a message of executor_b was delivered first.
OneBucketFirst ==
    \E c \in Callers :
        /\ cfg.graph = "fan_in_twice"
        /\ task[c].st = "running"
        /\ task[c].pend["executor_b"] # <<>> /\ task[c].pend["executor_c"] # <<>>
        /\ Len(buffer) = 1 /\ buffer[1].source_id = "executor_b"

\* In the same superstep a message of executor_c was delivered first.
OtherBucketFirst ==
    \E c \in Callers :
        /\ cfg.graph = "fan_in_twice"
        /\ task[c].st = "running"
        /\ task[c].pend["executor_b"] # <<>> /\ task[c].pend["executor_c"] # <<>>
        /\ Len(buffer) = 1 /\ buffer[1].source_id = "executor_c"


(***************************************************************************)
(* The storage a restore loads from, checked under SpecPrecedence: a       *)
(* checkpoint may lie in the storage of the context, in a storage outside  *)
(* it, in both or in neither, and the call may or may not be handed the    *)
(* outside storage.  The two checkpoints differ in what they hold.         *)
(***************************************************************************)
\* CheckpointStorage.save_checkpoint into a storage outside the context,
\* whether or not the context has one of its own.
SaveCheckpointOutside(checkpoint) ==
    /\ calls = 0
    /\ \A c \in Callers : pc[c] = "idle" /\ entry[c] = "none"
    /\ ext_storage = <<>>
    /\ ext_storage' = Append(ext_storage, checkpoint)
    /\ UNCHANGED <<cfg, agent_pending, buffer, invocation, request_seq, runnerVars, is_running, ctxVars,
                   storage, stateVars, callerVars, orphans, calls>>

InitPrecedence ==
    Constructed([limit : {max_iterations}, checkpointing : BOOLEAN,
                 graph_signature_hash : {"g1"}, graph : {"cycle"}])

NextPrecedence ==
    \/ SaveCheckpoint(FALSE, EarlierCheckpoint)
    \/ SaveCheckpointOutside(TwoPendingCheckpoint)
    \/ \E c \in Callers :
          \/ \E id \in RestoreIds, ext \in BOOLEAN :
                \/ Restore(c, id, ext, NoFault)
                \/ RunStreamFromCheckpoint(c, id, ext, NoFault)
          \/ RunnerCall(c)
          \/ Enter(c)
          \/ Yield(c, FALSE)
          \/ LoopHead(c)
          \/ IterationStep(c, FALSE)
          \/ PollYield(c, FALSE)
          \/ AwaitTask(c)
          \/ SuperstepCheckpoint(c, FALSE)
          \/ ConvergenceCheck(c)
          \/ Return(c)

SpecPrecedence == InitPrecedence /\ [][NextPrecedence]_vars

\* The restore of this step has taken over the checkpoint.
TakesOver(c, checkpoint) ==
    /\ res'[c] \in {"restored", "none"}
    /\ workflow_id' = checkpoint.workflow_id
    /\ messages' = checkpoint.messages
    /\ iteration' = checkpoint.iteration_count
    /\ resumed_from_checkpoint'

\* The restore of this step has reported that there is no checkpoint.
ReportsNotFound(c) ==
    /\ res'[c] \in {"restore_false", "restore_failed"}
    /\ UNCHANGED <<runnerVars, ctxVars, stateVars>>

\* C36: in restore_from_checkpoint the storage of the context takes
\* precedence: with checkpointing enabled in the context the checkpoint is
\* loaded from there whether or not an outside storage is handed to the
\* call, and a checkpoint that lies only in the outside storage is reported
\* as not found; the outside storage is used only when the context has no
\* checkpointing.
C36_ContextStorageFirst ==
    [][\A c \in Callers :
          RestoreStep(c) \/ ResumeStep(c)
          => LET id == req'[c].id
             IN  IF has_checkpointing
                 THEN IF Found(storage, "ctx", id)
                      THEN TakesOver(c, storage[id[2]])
                      ELSE ReportsNotFound(c)
                 ELSE IF req'[c].ext /\ Found(ext_storage, "ext", id)
                      THEN TakesOver(c, ext_storage[id[2]])
                      ELSE res'[c] \in {"restore_false", "restore_failed",
                                        "cannot_restore"}
                           /\ UNCHANGED <<runnerVars, ctxVars, stateVars>>]_vars

\* With checkpointing in the context, a restore that was handed the outside
\* storage and asked for the checkpoint that lies only there has reported
\* that it was not found.
C36_Witness ==
    \E c \in Callers :
        /\ has_checkpointing
        /\ entry[c] = "restore" /\ pc[c] = "exit"
        /\ req[c].ext /\ req[c].id = <<"ext", 1>>
        /\ ext_storage # <<>>
        /\ res[c] = "restore_false"

\* Without checkpointing in the context the outside storage was used.
OutsideStorageUsed ==
    \E c \in Callers :
        /\ ~has_checkpointing
        /\ entry[c] = "restore" /\ pc[c] = "exit"
        /\ res[c] = "restored"
        /\ workflow_id = "wf_saved" /\ Len(messages["executor_a"]) = 2

\* With checkpointing in the context and both storages filled, the
\* checkpoint of the context was restored by a call that was handed the
\* outside storage.
ContextStorageUsed ==
    \E c \in Callers :
        /\ has_checkpointing /\ ext_storage # <<>>
        /\ entry[c] = "restore" /\ pc[c] = "exit" /\ req[c].ext
        /\ res[c] = "restored"
        /\ Len(messages["executor_a"]) = 1


(***************************************************************************)
(* The supersteps of a successful run, checked under SpecRerun, where runs *)
(* start with and without pending messages: fresh runs, runs resumed from  *)
(* a checkpoint, send_responses and direct calls of the generator.         *)
(***************************************************************************)
\* C37: a run that starts with the iteration counter below max_iterations
\* and completes successfully has executed at least one superstep, at most
\* as many as the counter left, also when nothing was pending at entry;
\* with checkpointing the newest checkpoint is then that of its last
\* superstep, without pending messages; a successful fresh run has
\* executed between 1 and max_iterations supersteps.
C37_AtLeastOneSuperstep ==
    [][\A c \in Callers :
          Ends(c, "converged")
          => /\ iter_at_entry[c] < max_iterations
                => /\ steps_run[c] >= 1
                   /\ iter_at_entry[c] + steps_run[c] <= max_iterations
                   /\ iteration = iter_at_entry[c] + steps_run[c]
                   /\ has_checkpointing /\ Len(storage) < MaxCheckpoints
                      => LET last == storage[Len(storage)]
                         IN  /\ storage # <<>>
                             /\ last.metadata["checkpoint_type"] = "superstep"
                             /\ last.iteration_count = iteration
                             /\ last.messages = NoMessages
             /\ FreshRun(c) => steps_run[c] \in 1..max_iterations]_vars

\* A call that found nothing pending has completed after one superstep, and
\* the checkpoint of that superstep is the only one in the storage.
C37_Witness ==
    \E c \in Callers :
        /\ pc[c] = "exit" /\ res[c] = "converged"
        /\ entry[c] \in {"runner", "send_responses"}
        /\ steps_run[c] = 1
        /\ yielded[c] = <<>>
        /\ Len(storage) = 1
        /\ storage[1].metadata["checkpoint_type"] = "superstep"
        /\ storage[1].iteration_count = 1


(***************************************************************************)
(* WorkflowAgent (agent_framework/_workflows/_agent.py): the agent that    *)
(* wraps a workflow.  An agent run either starts the workflow with         *)
(* run_stream or, while requests are pending, hands the responses found in *)
(* its input to send_responses_streaming.  The input is a list of          *)
(* contents: text, approval responses and function results.                *)
(***************************************************************************)
UnknownId == <<"unknown", 0>>

TextContent == [type |-> "text", id |-> UnknownId, approved |-> FALSE, data |-> NoneV]

\* FunctionApprovalResponseContent: id is the request id of its arguments,
\* data the payload of its arguments.
FunctionApprovalResponseContent(id, approved, data) ==
    [type |-> "function_approval_response", id |-> id, approved |-> approved,
     data |-> data]

\* FunctionResultContent(call_id = id, result = data).
FunctionResultContent(id, data) ==
    [type |-> "function_result", id |-> id, approved |-> FALSE, data |-> data]

Raised == [raised |-> TRUE, function_responses |-> NoItems]

\* An extraction that skips what is not a response.
RECURSIVE extract_skipping_others(_, _, _)
extract_skipping_others(contents, pending, found) ==
    IF contents = <<>> THEN [raised |-> FALSE, function_responses |-> found]
    ELSE LET content == Head(contents)
             rest == Tail(contents)
             taken == (content.id :> content.data) @@ found
         IN  CASE content.type = "function_approval_response" ->
                    IF ~content.approved THEN Raised
                    ELSE IF content.id \in DOMAIN pending
                    THEN extract_skipping_others(rest, pending, taken)
                    ELSE IF pending # NoItems THEN Raised
                    ELSE extract_skipping_others(rest, pending, found)
               [] content.type = "function_result" ->
                    IF content.id \in DOMAIN pending
                    THEN extract_skipping_others(rest, pending, taken)
                    ELSE IF pending # NoItems THEN Raised
                    ELSE extract_skipping_others(rest, pending, found)
               [] OTHER -> extract_skipping_others(rest, pending, found)

\* WorkflowAgent._extract_function_responses, lines 276-320, over the
\* contents of the input in their order; raised stands for the
\* AgentExecutionException.
RECURSIVE extract_function_responses(_, _, _)
extract_function_responses(contents, pending, found) ==
    IF contents = <<>> THEN [raised |-> FALSE, function_responses |-> found]
    ELSE LET content == Head(contents)
             rest == Tail(contents)
             taken == (content.id :> content.data) @@ found
         IN  CASE content.type = "function_approval_response" ->
                    IF ~content.approved THEN Raised
                    ELSE IF content.id \in DOMAIN pending
                    THEN extract_function_responses(rest, pending, taken)
                    ELSE IF pending # NoItems THEN Raised
                    ELSE extract_function_responses(rest, pending, found)
               [] content.type = "function_result" ->
                    IF content.id \in DOMAIN pending
                    THEN extract_function_responses(rest, pending, taken)
                    ELSE IF pending # NoItems THEN Raised
                    ELSE extract_function_responses(rest, pending, found)
               [] OTHER ->
                    IF pending # NoItems THEN Raised
                    ELSE extract_function_responses(rest, pending, found)

\* Lines 207-210: the pending requests that are left once the fulfilled
\* ones are popped.
pop_fulfilled(pending, function_responses) ==
    [id \in DOMAIN pending \ DOMAIN function_responses |-> pending[id]]

\* The agent's call fails before a generator of the workflow exists.
AgentRaises(c, outcome) ==
    /\ res' = [res EXCEPT ![c] = outcome]
    /\ entry' = [entry EXCEPT ![c] = "agent_send_responses"]
    /\ UNCHANGED <<cfg, buffer, invocation, request_seq, runnerVars, is_running, ctxVars,
                   storeVars, stateVars, pc, buf, yielded, task, steps_run,
                   iter_at_entry, req, orphans>>

\* WorkflowAgent._run_stream_impl, lines 198-220, up to the first step of the
\* event stream it has chosen; the events of the stream reach the agent
\* through Yield and PollYield.
AgentRunStreamImpl(c, input_messages) ==
    /\ MayCallWorkflow(c)
    /\ IF agent_pending # NoItems
       THEN LET extracted == extract_function_responses(input_messages, agent_pending,
                                                        NoItems)
                function_responses == extracted.function_responses
            IN  /\ calls' = calls + 1
                /\ IF extracted.raised
                   THEN /\ AgentRaises(c, "agent_execution_exception")
                        /\ UNCHANGED agent_pending
                   ELSE /\ agent_pending' = pop_fulfilled(agent_pending,
                                                          function_responses)
                        /\ IF is_running
                           THEN AgentRaises(c, "workflow_already_running")
                           ELSE /\ Accepted(c, "agent_send_responses")
                                /\ LET r == handle_responses(function_responses, Context)
                                   IN  /\ messages' = r.messages
                                       /\ events' = r.events
                                       /\ pending_requests' = r.pending_requests
                                       /\ shared_state' = r.shared_state
                                /\ pc' = [pc EXCEPT ![c] = "start"]
                                /\ UNCHANGED <<cfg, buffer, invocation, request_seq,
                                               runnerVars, storeVars, exec_state, buf,
                                               task, iter_at_entry, req, orphans>>
       ELSE Run(c, "agent_run_stream")

\* The contents an input is made of: text, and responses that name a
\* pending request or a request the agent does not know.
Contents ==
    LET ids == DOMAIN agent_pending \cup {UnknownId}
        answers == {ApprovalMessage(TRUE), ApprovalMessage(FALSE)}
    IN  {TextContent}
        \cup {FunctionApprovalResponseContent(id, approved, data) :
                 id \in ids, approved \in BOOLEAN, data \in answers}
        \cup {FunctionResultContent(id, data) : id \in ids, data \in answers}

\* The inputs of an agent run: one or two contents.
Inputs == {<<a>> : a \in Contents} \cup {<<a, b>> : a \in Contents, b \in Contents}

InitAgent ==
    Constructed([limit : Limits, checkpointing : {FALSE}, graph_signature_hash : {"g1"},
                 graph : {"approval", "approvals"}])

NextAgent ==
    \E c \in Callers :
        \/ \E input_messages \in Inputs : AgentRunStreamImpl(c, input_messages)
        \/ Enter(c)
        \/ Yield(c, FALSE)
        \/ LoopHead(c)
        \/ IterationStep(c, FALSE)
        \/ PollYield(c, FALSE)
        \/ AwaitTask(c)
        \/ ConvergenceCheck(c)
        \/ Return(c)

SpecAgent == InitAgent /\ [][NextAgent]_vars

\* The contents of an input that are responses, and the request ids they name.
IsResponse(content) == content.type \in {"function_approval_response", "function_result"}

AnsweredBy(input_messages) ==
    {input_messages[i].id : i \in {j \in DOMAIN input_messages :
                                     IsResponse(input_messages[j])}}

\* Caller c takes one event out of the stream of its agent run.
AgentTakes(c, event) ==
    /\ entry[c] \in AgentEntries
    /\ yielded'[c] = Append(yielded[c], event)

\* C38: a request stays pending at the agent until it is answered: every
\* RequestInfoEvent an agent run takes out of the stream is recorded under
\* its request id, an entry goes away only in the step of an agent run whose
\* input carries a response for that id, what such a run does not answer
\* stays, and while a request is pending a new agent run goes on through
\* send_responses_streaming instead of run_stream.
C38_PendingUntilAnswered ==
    [][/\ \A c \in Callers :
             \A event \in {Stream(c)[i] : i \in DOMAIN Stream(c)} :
                AgentTakes(c, event) /\ event.k = "request_info" =>
                   /\ event.request_id \in DOMAIN agent_pending'
                   /\ agent_pending'[event.request_id] = event
       /\ \A id \in DOMAIN agent_pending \ DOMAIN agent_pending' :
             \E c \in Callers, input_messages \in Inputs :
                /\ AgentRunStreamImpl(c, input_messages)
                /\ id \in AnsweredBy(input_messages)
       /\ \A c \in Callers, input_messages \in Inputs :
             AgentRunStreamImpl(c, input_messages) =>
                /\ \A id \in DOMAIN agent_pending \ AnsweredBy(input_messages) :
                      /\ id \in DOMAIN agent_pending'
                      /\ agent_pending'[id] = agent_pending[id]
                /\ entry'[c] = IF agent_pending # NoItems THEN "agent_send_responses"
                                ELSE "agent_run_stream"]_vars

\* Two requests were pending, an agent run has answered one of them and goes
\* on through send_responses_streaming while the other one is still pending.
C38_Witness ==
    \E c \in Callers :
        /\ entry[c] = "agent_send_responses"
        /\ pc[c] # "idle"
        /\ Cardinality(DOMAIN agent_pending) = 1
        /\ Cardinality(DOMAIN pending_requests) = 1
        /\ DOMAIN agent_pending = DOMAIN pending_requests
        /\ request_seq = 2

\* An agent run of caller c whose continuation the workflow refuses.
ContinuationRefused(c) ==
    /\ \E input_messages \in Inputs : AgentRunStreamImpl(c, input_messages)
    /\ agent_pending # NoItems
    /\ res'[c] = "workflow_already_running"

\* C39: a pending request is removed only when its response has been handed
\* to the workflow: after an agent run whose continuation through
\* send_responses_streaming is refused because the workflow is already
\* running, pending_requests still holds every request it held before.
C39_RemovedOnlyWhenHandedOver ==
    [][\A c \in Callers : ContinuationRefused(c) => agent_pending' = agent_pending]_vars

\* A request that is open at the workflow and that no agent run is about to
\* answer is missing from the agent's pending requests.
LostRequest ==
    /\ \E c \in Callers : pc[c] = "idle" /\ res[c] = "workflow_already_running"
    /\ \E id \in DOMAIN pending_requests : id \notin DOMAIN agent_pending

\* A content the agent takes while requests are pending: an approved approval
\* response or a function result that names a pending request.
Acceptable(content, pending) ==
    /\ IsResponse(content)
    /\ content.id \in DOMAIN pending
    /\ content.type = "function_approval_response" => content.approved

Unacceptable(input_messages) ==
    \E i \in DOMAIN input_messages : ~Acceptable(input_messages[i], agent_pending)

\* C40: while a request is pending, an agent run whose input holds anything
\* but approved approval responses and function results for pending request
\* ids (text, a response for an unknown id, a refused approval) fails with
\* AgentExecutionException before the workflow is invoked: pending_requests
\* and the whole of the workflow are as before.
C40_UnexpectedInputRefused ==
    [][\A c \in Callers, input_messages \in Inputs :
          (/\ AgentRunStreamImpl(c, input_messages)
           /\ agent_pending # NoItems
           /\ Unacceptable(input_messages)) =>
             /\ res'[c] = "agent_execution_exception"
             /\ pc'[c] = "idle"
             /\ UNCHANGED <<agent_pending, runnerVars, is_running, ctxVars, storeVars,
                            stateVars, task, orphans, buf, yielded>>]_vars

\* An agent run was refused with AgentExecutionException while a request was
\* pending, and the request is still pending at agent and workflow.
C40_Witness ==
    \E c \in Callers :
        /\ pc[c] = "idle"
        /\ entry[c] = "agent_send_responses"
        /\ res[c] = "agent_execution_exception"
        /\ agent_pending # NoItems
        /\ DOMAIN agent_pending = DOMAIN pending_requests
====
